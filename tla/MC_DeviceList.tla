---------------------------- MODULE MC_DeviceList ----------------------------
\* Two devices of a lab in two pools, pages of one or both.
EXTENDS DeviceList

MCAttributeOf ==
  [c \in FilterColumns |->
     IF c = "Pool" THEN [d \in 1 .. 2 |-> IF d = 2 THEN "q" ELSE "p"]
     ELSE [d \in 1 .. 2 |-> "s"]]
MCLabOf == [d \in 1 .. 2 |-> "A"]
MCApps == {[isAtsLabInstance |-> b, validation |-> ~ b] : b \in BOOLEAN}
=============================================================================
