------------------------------- MODULE Parrot -------------------------------
(***************************************************************************)
(* QuadRFParrotModule: a station that answers every text it hears with a   *)
(* copy behind a prefix, at most once a second to the same node.  Several  *)
(* stations hear each other and the users.  A message in flight is what a  *)
(* station's wantPacket and handleReceived look at: from, whether there is *)
(* text, and whether it starts with the prefix.                            *)
(*                                                                         *)
(* millis() is a counter that wraps: Clock is its range, in units of which *)
(* Cooldown make the second.  The model counts the time that passed beside *)
(* it, up to Horizon.                                                      *)
(***************************************************************************)
EXTENDS Integers, Sequences, FiniteSets

CONSTANTS
  Parrots, Users,  \* nodes with and without a parrot
  Hears,           \* the nodes each station has in range
  Slots,           \* kCooldownSlots
  Cooldown,        \* 1000 ms
  Clock,           \* 2^32 ms
  Horizon,         \* bound of the model: the time that passes
  Texts            \* bound of the model: messages of the users

Nobody == "nobody"   \* node 0

ASSUME ParrotAssumption ==
  /\ Hears \in [Parrots -> SUBSET (Parrots \cup Users)]
  /\ Slots \in Nat \ {0} /\ Cooldown \in Nat \ {0}
  /\ Clock \in Nat /\ Clock > Cooldown
  /\ Horizon \in Nat /\ Texts \in Nat
  /\ Parrots \cap Users = {} /\ Nobody \notin Parrots \cup Users

VARIABLES
  parNow,      \* time
  parEnabled,  \* enabled_, per station
  parTable,    \* cooldown_: per station and slot [from, last]
  parIndex,    \* cooldown_idx_
  parHeard,    \* messages received and not handled yet, per station
  parTexts,    \* history: what the users sent
  parAnswered  \* history: per station the answers [to, at] the rate limit let
               \* through, in order

parVars == <<parNow, parEnabled, parTable, parIndex, parHeard, parTexts, parAnswered>>

ParrotInit ==
  /\ parNow = 0
  /\ parEnabled = [s \in Parrots |-> FALSE]
  /\ parTable = [s \in Parrots |-> [i \in 1..Slots |-> [from |-> Nobody, last |-> 0]]]
  /\ parIndex = [s \in Parrots |-> 1]
  /\ parHeard = [s \in Parrots |-> <<>>]
  /\ parTexts = 0
  /\ parAnswered = [s \in Parrots |-> <<>>]
-----------------------------------------------------------------------------
Millis == parNow % Clock
Since(e) == (Millis - e.last) % Clock

Known(t, from) == {i \in 1..Slots : t[i].from = from}

(* isRateLimited: the first slot of the node, else the next one in turn.   *)
Limited(t, from) ==
  \E i \in Known(t, from) : (\A k \in Known(t, from) : i <= k) /\ Since(t[i]) < Cooldown

(* Mutant: the slot is not refreshed by the answer it allows.              *)
Refresh_Forgets(t, idx, from) ==
  IF Known(t, from) # {} THEN t ELSE [t EXCEPT ![idx] = [from |-> from, last |-> Millis]]

Refresh(t, idx, from) ==
  LET entry == [from |-> from, last |-> Millis]
      i == CHOOSE i \in Known(t, from) : \A k \in Known(t, from) : i <= k
  IN IF Known(t, from) # {} THEN [t EXCEPT ![i] = entry] ELSE [t EXCEPT ![idx] = entry]

NextIndex(t, idx, from) == IF Known(t, from) # {} THEN idx ELSE (idx % Slots) + 1

(* The guards of handleReceived before the rate limit.                     *)
Answers(s, m) == parEnabled[s] /\ m.from # s /\ m.text /\ ~m.prefix

Broadcast(heard, m) ==
  [s \in Parrots |-> IF m.from \in Hears[s] THEN Append(heard[s], m) ELSE heard[s]]

Pop(heard, s) == [heard EXCEPT ![s] = Tail(@)]
-----------------------------------------------------------------------------
(* A user's message reaches the stations in range; it may have no text.    *)
UserSends ==
  /\ parTexts < Texts
  /\ \E u \in Users, text \in BOOLEAN :
       parHeard' = Broadcast(parHeard, [from |-> u, text |-> text, prefix |-> FALSE])
  /\ parTexts' = parTexts + 1
  /\ UNCHANGED <<parNow, parEnabled, parTable, parIndex, parAnswered>>

(* setEnabled, from the control socket.                                    *)
SetEnabled ==
  /\ parTexts = 0
  /\ \E s \in Parrots : parEnabled' = [parEnabled EXCEPT ![s] = TRUE]
  /\ UNCHANGED <<parNow, parTable, parIndex, parHeard, parTexts, parAnswered>>

TimePasses ==
  /\ parNow < Horizon
  /\ parNow' = parNow + 1
  /\ UNCHANGED <<parEnabled, parTable, parIndex, parHeard, parTexts, parAnswered>>

(* handleReceived; the packet pool may be empty when the answer is made,   *)
(* with the rate limit already spent.                                      *)
HandleReceived(s) ==
  /\ parHeard[s] # <<>>
  /\ LET m == Head(parHeard[s])
         t == parTable[s]
         reply == [from |-> s, text |-> TRUE, prefix |-> TRUE]
         ok == Answers(s, m) /\ ~Limited(t, m.from)
     IN IF ~ok THEN /\ parHeard' = Pop(parHeard, s)
                    /\ UNCHANGED <<parTable, parIndex, parAnswered>>
        ELSE /\ parTable' = [parTable EXCEPT ![s] = Refresh(t, parIndex[s], m.from)]
             /\ parIndex' = [parIndex EXCEPT ![s] = NextIndex(t, parIndex[s], m.from)]
             /\ parAnswered' = [parAnswered EXCEPT ![s] =
                                  Append(@, [to |-> m.from, at |-> parNow])]
             /\ \/ parHeard' = Broadcast(Pop(parHeard, s), reply)
                \/ parHeard' = Pop(parHeard, s)
  /\ UNCHANGED <<parNow, parEnabled, parTexts>>

ParrotNext ==
  \/ UserSends \/ SetEnabled \/ TimePasses
  \/ \E s \in Parrots : HandleReceived(s)

ParrotSpec == ParrotInit /\ [][ParrotNext]_parVars
-----------------------------------------------------------------------------
(* Parrots that hear each other do not answer each other's answers: there  *)
(* are never more answers than texts.  And a station answers a node again  *)
(* only after the second has passed, over a wrap of millis() too, as long  *)
(* as it has answered no more nodes than it has slots: beyond that the     *)
(* slots are taken in turn, whoever was answered last.                     *)
ParrotQuiet ==
  \A s \in Parrots :
    LET a == parAnswered[s]
    IN /\ Len(a) <= parTexts
       /\ \A i, k \in 1..Len(a) :
            i < k /\ a[i].to = a[k].to /\ a[k].at < a[i].at + Cooldown
              => Cardinality({a[n].to : n \in 1..Len(a)}) > Slots
=============================================================================
