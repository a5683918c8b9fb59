\* One doc comment fits into the slack, the four of the file do not.
CONSTANTS
    Scripts <- CommentScripts
    Slack = 1
SPECIFICATION Spec
INVARIANT FitsBuffer
