SPECIFICATION Spec
CONSTANTS
    Targets = {s}
    Static = {s}
    MaxBackups = 1
    Platforms <- Nothing
    None = None
INVARIANT HookPersists
