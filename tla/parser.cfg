SPECIFICATION Spec
CONSTANTS
    Lines <- MCLines
    MaxLines = 5
INVARIANT ParsesPrograms
