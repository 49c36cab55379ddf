\* Two sub-systems.
SPECIFICATION Spec
CONSTANTS
  Subs = {s1, s2}
  Params <- AllSettings
INVARIANT DrivenOnce
INVARIANT HoldingsFollowed
INVARIANT SweepEndsFlat
PROPERTY ForcedOut
