SPECIFICATION SettingsSpec
CONSTANTS
    Lines <- MCLines
    MaxLines = 2
    Numerals <- MCNumerals
INVARIANT MaskAsGiven
CHECK_DEADLOCK FALSE
