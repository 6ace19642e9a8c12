---------------------------------- MODULE Plic ----------------------------------
(***************************************************************************)
(* Plic of examples/fuxi/sim/interrupt_devices.cpp: level-sensitive        *)
(* gateways, one pending and one busy flag per source, and claim/complete  *)
(* by several contexts.                                                    *)
(*                                                                         *)
(* Each action is one register access of the guest, with the settle or     *)
(* notify it ends in, or a call of the platform.  An access to a reserved  *)
(* register does at most what settle does; one that is not an aligned word *)
(* answers SLVERR and changes nothing.  priority_[0] is always zero, so    *)
(* source 0 stands for "no candidate".                                     *)
(*                                                                         *)
(* `serving' is a ghost of the drivers: what each context has claimed and  *)
(* not completed.  Drivers with a record complete only what is in it;      *)
(* drivers without one write any ID at any time.                           *)
(***************************************************************************)
EXTENDS Integers

CONSTANTS
  Sources,        \* sources_
  Context,        \* the contexts, 0 .. contexts_ - 1
  MaxPriority     \* 7

Source   == 1 .. Sources
Priority == 0 .. MaxPriority
Word     == 0 .. MaxPriority + 1   \* the values the guest writes

ASSUME PlicAssumption ==
  /\ Sources \in Nat \ {0}
  /\ Context # {}
  /\ MaxPriority \in Nat \ {0}

VARIABLES
  level,      \* the input signals
  priority, threshold, enables, pending, busy,
  irqs,       \* the output of each context
  serving     \* [Context -> sources claimed and not completed], or NoRecord

configVars == <<priority, threshold, enables>>
plicVars == <<level, configVars, pending, busy, irqs, serving>>

NoRecord  == <<>>
NoneTaken == [c \in Context |-> {}]

Init ==
  /\ level = {}
  /\ priority = [s \in Source |-> 0]
  /\ threshold = [c \in Context |-> 0]
  /\ enables = [c \in Context |-> {}]
  /\ pending = {} /\ busy = {}
  /\ irqs = [c \in Context |-> FALSE]
  /\ serving \in {NoneTaken, NoRecord}

-----------------------------------------------------------------------------
(* What best() looks for: of the pending sources enabled for the context   *)
(* whose priority is not 0, the lowest ID of the highest priority.         *)
Candidates(c) == {s \in pending \cap enables[c] : priority[s] > 0}

Beats(s, t) == priority[s] > priority[t] \/ (priority[s] = priority[t] /\ s <= t)

best(c) ==
  IF Candidates(c) = {} THEN 0
  ELSE CHOOSE s \in Candidates(c) : \A t \in Candidates(c) : Beats(s, t)

(* The loop of best(): an ascending scan that keeps a strictly better      *)
(* source.  Mutant: it also moves on to an equal one.                      *)
BetterOrEqual(c, i, s) ==
  /\ i \in pending \cap enables[c]
  /\ priority[i] > 0
  /\ s # 0 => priority[i] >= priority[s]
Better(c, i, s) ==
  /\ i \in pending \cap enables[c]
  /\ priority[i] > IF s = 0 THEN 0 ELSE priority[s]

scan(c) ==
  LET selected[i \in 0 .. Sources] ==
        IF i = 0 THEN 0
        ELSE IF Better(c, i, selected[i - 1]) THEN i ELSE selected[i - 1]
  IN  selected[Sources]

(* notify, on the state after the access.  Mutant: the threshold itself    *)
(* is enough.                                                              *)
NotifiesAt(c) == best(c) # 0 /\ priority[best(c)] >= threshold[c]
Notifies(c) == best(c) # 0 /\ priority[best(c)] > threshold[c]
notify == irqs' = [c \in Context |-> Notifies(c)']

(* The gateways that accept a request.  Mutant: a busy gateway too.        *)
AcceptedAlways(open) == level
Accepted(open) == level \ open

(* settle, from these values of busy_ and pending_.  Mutant: a falling     *)
(* input takes its request back.                                           *)
SettleOnLevel(b, p) ==
  /\ pending' = (p \cap level) \cup Accepted(b)
  /\ busy' = b \cup Accepted(b)
SettleFrom(b, p) ==
  /\ pending' = p \cup Accepted(b)
  /\ busy' = b \cup Accepted(b)

settle ==
  /\ SettleFrom(busy, pending)
  /\ UNCHANGED <<level, configVars, serving>>
  /\ notify

(* A device drives an input of the PLIC; the platform settles it next.     *)
InputChanges ==
  /\ level' \in SUBSET Source
  /\ UNCHANGED <<configVars, pending, busy, irqs, serving>>

reset ==
  /\ priority' = [s \in Source |-> 0]
  /\ threshold' = [c \in Context |-> 0]
  /\ enables' = [c \in Context |-> {}]
  /\ pending' = {} /\ busy' = {}
  /\ irqs' = [c \in Context |-> FALSE]
  /\ serving' = IF serving = NoRecord THEN NoRecord ELSE NoneTaken
  /\ UNCHANGED level

-----------------------------------------------------------------------------
(* value & 7, MaxPriority + 1 being a power of two.                        *)
Masked(value) == value % (MaxPriority + 1)

(* write_register: every branch ends in settle.                            *)
WritePriority ==
  /\ \E s \in Source, value \in Word :
       priority' = [priority EXCEPT ![s] = Masked(value)]
  /\ SettleFrom(busy, pending)
  /\ UNCHANGED <<level, threshold, enables, serving>>
  /\ notify

(* A write covers the sources of one 32-bit word; here it may set all.     *)
WriteEnable ==
  /\ \E c \in Context, value \in SUBSET Source : enables' = [enables EXCEPT ![c] = value]
  /\ SettleFrom(busy, pending)
  /\ UNCHANGED <<level, priority, threshold, serving>>
  /\ notify

WriteThreshold ==
  /\ \E c \in Context, value \in Word :
       threshold' = [threshold EXCEPT ![c] = Masked(value)]
  /\ SettleFrom(busy, pending)
  /\ UNCHANGED <<level, priority, enables, serving>>
  /\ notify

(* A completion is taken when the context enables the source; it need not  *)
(* come from the context that claimed.  One that is not taken leaves the   *)
(* source with its context.                                                *)
WriteComplete ==
  \E c \in Context, id \in Source :
    /\ serving # NoRecord => id \in serving[c]
    /\ IF id \in enables[c]
       THEN /\ SettleFrom(busy \ {id}, pending)
            /\ serving' = IF serving = NoRecord THEN NoRecord
                          ELSE [serving EXCEPT ![c] = @ \ {id}]
       ELSE SettleFrom(busy, pending) /\ UNCHANGED serving
    /\ UNCHANGED <<level, configVars>>
    /\ notify

(* read_register at the claim offset: it takes the best candidate and does *)
(* not look at the threshold.  Other reads change nothing.                 *)
ReadClaim ==
  \E c \in Context :
    /\ pending' = pending \ {best(c)}
    /\ serving' = IF best(c) = 0 \/ serving = NoRecord THEN serving
                  ELSE [serving EXCEPT ![c] = @ \cup {best(c)}]
    /\ UNCHANGED <<level, configVars, busy>>
    /\ notify

Next ==
  \/ InputChanges \/ settle \/ reset
  \/ WritePriority \/ WriteEnable \/ WriteThreshold \/ WriteComplete \/ ReadClaim

Spec == Init /\ [][Next]_plicVars

-----------------------------------------------------------------------------
(* What the variables hold.                                                *)
PlicTypeOK ==
  /\ level \subseteq Source /\ pending \subseteq Source /\ busy \subseteq Source
  /\ priority \in [Source -> Priority]
  /\ threshold \in [Context -> Priority]
  /\ enables \in [Context -> SUBSET Source]
  /\ irqs \in [Context -> BOOLEAN]
  /\ serving = NoRecord \/ serving \in [Context -> SUBSET Source]

(* The loop of best() finds the lowest ID among the pending, enabled       *)
(* sources of the highest priority above zero.                             *)
ScanFindsBest == \A c \in Context : scan(c) = best(c)

(* A context is interrupted exactly when a source it enabled is pending    *)
(* above its threshold: no register write, claim or settle leaves a line   *)
(* stale.                                                                  *)
IrqTellsTheTruth ==
  \A c \in Context :
    irqs[c] <=> \E s \in pending \cap enables[c] : priority[s] > threshold[c]

(* With drivers that complete only what they claimed, a gateway is busy    *)
(* exactly while its one request is pending or in the hands of one         *)
(* context: requests are neither duplicated nor leaked, whatever is        *)
(* disabled, masked or reprioritised meanwhile.                            *)
OneRequestPerSource ==
  serving # NoRecord =>
    /\ busy = pending \cup UNION {serving[c] : c \in Context}
    /\ \A c \in Context : serving[c] \cap pending = {}
    /\ \A c, d \in Context : c # d => serving[c] \cap serving[d] = {}

(* A pending request leaves the pending set only at reset or by a claim: a *)
(* falling input, a mask or a completion, even one nobody is waiting for,  *)
(* never retracts it.                                                      *)
RequestsAreKept == [][reset \/ ReadClaim \/ pending \subseteq pending']_plicVars
=============================================================================
