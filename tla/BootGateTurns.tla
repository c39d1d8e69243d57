--------------------------- MODULE BootGateTurns ---------------------------
(***************************************************************************)
(* Whose turn it is at a Mac's boot slot: BootGate with a history that      *)
(* counts, from the boots that take the slot and not from the gate's own    *)
(* humanStreak, the people let past an automation that waits.               *)
(***************************************************************************)
EXTENDS BootGate

VARIABLE turn   \* history: for each Mac, since automation's last turn, the people who took the
                \* slot past an automation that waits, and all who were or may have been let through

NoTurn == [passed |-> 0, through |-> 0]

\* The step gives the slot to whom it was not: to one who was held, or comes now.
Takes(m) == /\ host'[m].slot.phase = "booting"
            /\ \/ host'[m].slot.session # host[m].slot.session
               \/ host'[m].slot.session = host[m].reservation.session

\* A boot that was held took a person's place, whoever sent it again since.
AutomationTakes(m) == /\ Takes(m) /\ ask'[host'[m].slot.req].class = "automated"
                      /\ host[m].reservation.session # host'[m].slot.session

\* The boot that was held and is now with nobody: withdrawn, or without a session to
\* go to when its turn came.
Unsent(m) == LET r == host[m].reservation.req IN r # None /\ ask[r].at = "held" /\ ask'[r].at = "nobody"

Through(m) == turn[m].through + (IF Takes(m) \/ Unsent(m) THEN 1 ELSE 0)

\* A window is automation's turn, used or not; and who takes the slot while no
\* automation waits passes nobody.
TurnOf(m) ==
  LET wait == AutomationWaiting(host[m], now)
  IN  IF WindowOpen(host'[m]) \/ AutomationTakes(m) \/ (Takes(m) /\ ~wait) THEN NoTurn
      ELSE [passed  |-> IF ~wait THEN 0 ELSE turn[m].passed + (IF Takes(m) THEN 1 ELSE 0),
            through |-> IF Through(m) < AgingCount THEN Through(m) ELSE AgingCount]

TurnInit == Init /\ turn = [m \in Hosts |-> NoTurn]
TurnNext == Next /\ turn' = [m \in Hosts |-> TurnOf(m)]
TurnSpec == TurnInit /\ [][TurnNext]_<<vars, turn>>

\* Automation that keeps asking is passed over by AgingCount people and no more, and
\* people lose the slot to its window no sooner: on a Mac without memory pressure no
\* more than AgingCount people in a row take the slot while automation waits, and an
\* ageing window opens only while automation waits and AgingCount people were let
\* through ("after this many people in a row took the slot"), those among them whose
\* boot then had no session to go to.
AutomationHasItsTurn ==
  [][\A m \in Hosts :
       /\ "critical" \notin Pressure /\ AgingCount > 0 => turn'[m].passed <= AgingCount
       /\ ~WindowOpen(host[m]) /\ WindowOpen(host'[m]) =>
            AutomationWaiting(host[m], now) /\ Through(m) >= AgingCount]_vars
=============================================================================
