SPECIFICATION Spec
CONSTANTS
    Upgrades = {u, v}
    NoFile = NoFile
    Helpers = {"sudo", "systemd-run"}
    MaxTree = 2
    MaxFailures = 1
INVARIANTS
    TypeOK
    SwitchesOwn
PROPERTIES
    Upgraded
