SPECIFICATION TabSpec
CONSTANTS
    Presses = {p, q}
    Tabs = {a, b}
    Other = Other
    Text = Text
    Picture = Picture
    Garbled = Garbled
    MaxPolls = 2
    MaxUser = 1
INVARIANTS
    TabTypeOK
    OpensTheTab
    ClipboardRestored
CHECK_DEADLOCK FALSE
