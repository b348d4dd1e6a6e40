\* Two owners, the polling loop, a session's collector, the last collection of
\* who stops the loop, and the round check.
SPECIFICATION FairSpec
CONSTANTS
  Owners = {o1, o2}
  All = All
  Loop = Loop
  Final = Final
  Collectors = {Loop, Final, Call}
  MaxSent = 2
  MaxCancels = 1
  MaxLeaves = 1
INVARIANTS TypeOK EachCopyOnce QuietMeansNoMail
PROPERTIES DrainsKeepOrder EveryMailLeaves
