--------------------------- MODULE ControlProofs ---------------------------
(***************************************************************************)
(* The two claims of the daemon about numbers it sends to the hardware,    *)
(* for every value of the constants.                                       *)
(*                                                                         *)
(* Part 1, the power limits: VerifiedLimitsHold for every range, level,    *)
(* delay and number of failures, given that the limits are held for as     *)
(* long as an update of the BIOS may take (PowerLimitsAssumption). It is   *)
(* not inductive: nothing in it keeps an update from landing after the     *)
(* thread is done. HoldInv adds the race between the two clocks: while the *)
(* limits are held, every update still on its way is due before the hold   *)
(* ends, so none is left when it does.                                     *)
(*                                                                         *)
(* Part 2, the fans: ProtectedFansAreFast for all curves, edits, readings, *)
(* deadbands, averaging times, delays and failures. First the arithmetic   *)
(* of curves (each recursion along the points is shown to have a solution, *)
(* and its elements are followed from point to point), then the reading,   *)
(* the mean, the deadband and the ramp, and last FanInv, which follows the *)
(* heat through window and ramp to each fan, and counts how long a fan     *)
(* waits behind one whose write failed.                                    *)
(***************************************************************************)
EXTENDS PowerLimits, FanControl, SequenceTheorems, WellFoundedInduction, TLAPS

----------------------------------------------------------------------------
(* Part 1. Power limits.                                                   *)

Places == {"idle", "armoury", "send", "settle", "hold", "held", "retry", "ok", "error"}
Setters ==
  [at : Places, index : Nat, timer : Nat, attempt : Nat, cappedOk : BOOLEAN, warned : BOOLEAN]

LimitsTypeOK == setter \in Setters /\ updates \in [Limits -> 0..BiosLatency]

DueInTime == At("hold") \/ At("held") => \A limit \in Limits : updates[limit] <= setter.timer
HeldToTheEnd == At("hold") /\ setter.timer = 0 => Verified(setter.cappedOk)
NoneOnItsWay == At("ok") /\ smuPresent => \A limit \in Limits : updates[limit] = 0

HoldInv == LimitsTypeOK /\ DueInTime /\ HeldToTheEnd /\ NoneOnItsWay /\ VerifiedLimitsHold

(* What Go makes of the thread. *)
LEMMA GoTypes ==
  ASSUME setter \in Setters, NEW place \in Places, NEW timer \in Nat, Go(place, timer)
  PROVE  /\ setter' \in Setters /\ setter'.at = place /\ setter'.timer = timer
         /\ setter'.cappedOk = setter.cappedOk /\ setter'.warned = setter.warned
PROOF BY DEF Go, Setters

(* Each field keeps its type. *)
LEMMA FieldTypes ==
  ASSUME NEW s \in Setters, NEW place \in Places, NEW n \in Nat, NEW b \in BOOLEAN
  PROVE  /\ [s EXCEPT !.at = place] \in Setters
         /\ [s EXCEPT !.timer = n] \in Setters
         /\ [s EXCEPT !.attempt = n] \in Setters
         /\ [s EXCEPT !.cappedOk = b] \in Setters
PROOF BY Zenon DEF Setters

LEMMA FailureTypes ==
  ASSUME setter \in Setters, NEW place \in Places, NEW delay \in Nat, NEW n \in Nat,
         NEW b \in BOOLEAN,
         setter' = [setter EXCEPT !.at = place, !.timer = delay, !.attempt = n, !.cappedOk = b]
  PROVE  setter' \in Setters /\ setter'.at = place
<1>1. [setter EXCEPT !.at = place] \in Setters
  BY FieldTypes
<1>2. [setter EXCEPT !.at = place, !.timer = delay] \in Setters
  BY <1>1, FieldTypes
<1>3. [setter EXCEPT !.at = place, !.timer = delay, !.attempt = n] \in Setters
  BY <1>2, FieldTypes
<1>4. setter' \in Setters
  BY <1>3, FieldTypes
<1>5. setter'.at = place
  BY DEF Setters
<1> QED BY <1>4, <1>5

(* A unit of sleep brings every update on its way one unit nearer. *)
LEMMA TimeBringsUpdates ==
  ASSUME updates \in [Limits -> 0..BiosLatency], TimePasses
  PROVE  /\ updates' \in [Limits -> 0..BiosLatency]
         /\ \A limit \in Limits : updates'[limit] = 0 \/ updates'[limit] = updates[limit] - 1
PROOF BY PowerLimitsAssumption DEF TimePasses

LEMMA Arithmetic ==
  /\ Hold \in Nat /\ BiosLatency \in Nat /\ BiosLatency <= Hold
  /\ SettleTimeout \in Nat /\ RetryDelay \in Nat
PROOF BY PowerLimitsAssumption

LEMMA HoldInvInit == PowerLimitsInit => HoldInv
<1> SUFFICES ASSUME PowerLimitsInit PROVE HoldInv
  OBVIOUS
<1>1. setter = Resting /\ Resting \in Setters
  BY DEF PowerLimitsInit, Resting, Setters, Places
<1>2. updates \in [Limits -> 0..BiosLatency]
  BY Arithmetic DEF PowerLimitsInit
<1>3. ~At("hold") /\ ~At("held") /\ ~At("ok")
  BY <1>1 DEF At, Resting
<1> QED BY <1>1, <1>2, <1>3
        DEF HoldInv, LimitsTypeOK, DueInTime, HeldToTheEnd, NoneOnItsWay, VerifiedLimitsHold

(* Steps that leave the thread anywhere but holding the limits, or done.   *)
LEMMA ElsewhereHolds ==
  ASSUME HoldInv, LimitsTypeOK', setter'.at \notin {"hold", "held", "ok"}
  PROVE  HoldInv'
PROOF BY DEF HoldInv, DueInTime, HeldToTheEnd, NoneOnItsWay, VerifiedLimitsHold, At

(* An update may land before the limits are verified, or while they are    *)
(* held: not later.                                                        *)
LEMMA LandHolds ==
  ASSUME HoldInv, NEW limit \in Limits, Land(limit)
  PROVE  HoldInv'
<1>1. setter' = setter /\ smuPresent' = smuPresent /\ request' = request
  BY DEF Land
<1>2. updates \in [Limits -> 0..BiosLatency] /\ updates[limit] > 0
  BY DEF HoldInv, LimitsTypeOK, Land
<1>3. /\ updates' \in [Limits -> 0..BiosLatency]
      /\ \A other \in Limits : updates'[other] <= updates[other]
  BY <1>2, Arithmetic DEF Land
<1>4. setter \in Setters /\ setter.timer \in Nat
  BY DEF HoldInv, LimitsTypeOK, Setters
<1>5. LimitsTypeOK'
  BY <1>1, <1>3, <1>4 DEF LimitsTypeOK
<1>6. ~(At("ok") /\ smuPresent)
  BY <1>2 DEF HoldInv, NoneOnItsWay
<1>7. ~(At("hold") /\ setter.timer = 0)
  BY <1>2, <1>4 DEF HoldInv, DueInTime
<1>8. DueInTime'
  <2> SUFFICES ASSUME At("hold") \/ At("held"), NEW other \in Limits
               PROVE  updates'[other] <= setter.timer
    BY <1>1 DEF DueInTime, At
  <2>1. updates[other] <= setter.timer /\ updates'[other] <= updates[other]
    BY <1>3 DEF HoldInv, DueInTime
  <2>2. updates[other] \in Nat /\ updates'[other] \in Nat
    BY <1>2, <1>3, Arithmetic
  <2> QED BY <2>1, <2>2, <1>4
<1> QED BY <1>1, <1>5, <1>6, <1>7, <1>8
        DEF HoldInv, HeldToTheEnd, NoneOnItsWay, VerifiedLimitsHold, At

(* The thread's own steps. *)
LEMMA SetTdpHolds ==
  ASSUME HoldInv, SetTdp
  PROVE  HoldInv'
<1>0. /\ setter \in Setters /\ setter.timer \in Nat /\ setter.attempt \in Nat
      /\ setter.index \in Nat /\ setter.cappedOk \in BOOLEAN /\ setter.warned \in BOOLEAN
      /\ updates \in [Limits -> 0..BiosLatency]
  BY DEF HoldInv, LimitsTypeOK, Setters
<1>1. CASE StartSetTdp
  <2>1. setter' \in Setters /\ setter'.at = "armoury" /\ updates' = updates
    BY <1>0, <1>1, GoTypes DEF Places, StartSetTdp
  <2> QED BY <1>0, <2>1, ElsewhereHolds DEF LimitsTypeOK
<1>2. CASE WriteArmoury
  <2>1. updates' \in [Limits -> 0..BiosLatency]
    BY <1>0, <1>2, Arithmetic DEF WriteArmoury
  <2>2. CASE setter' = [setter EXCEPT !.index = @ + 1]
    <3>1. setter' \in Setters /\ setter'.at = setter.at
      BY <1>0, <2>2 DEF Setters
    <3>2. setter.at = "armoury"
      BY <1>2 DEF WriteArmoury, At
    <3> QED BY <2>1, <3>1, <3>2, ElsewhereHolds DEF LimitsTypeOK
  <2>3. CASE Go(IF smuPresent THEN "send" ELSE "ok", 0)
    <3>1. CASE smuPresent
      <4>1. setter' \in Setters /\ setter'.at = "send"
        BY <1>0, <2>3, <3>1, GoTypes DEF Places
      <4> QED BY <2>1, <4>1, ElsewhereHolds DEF LimitsTypeOK
    <3>2. CASE ~smuPresent
      <4>1. setter' \in Setters /\ setter'.at = "ok"
        BY <1>0, <2>3, <3>2, GoTypes DEF Places
      <4>2. ~smuPresent'
        BY <1>2, <3>2 DEF WriteArmoury, Quiet
      <4> QED BY <2>1, <4>1, <4>2
              DEF HoldInv, LimitsTypeOK, DueInTime, HeldToTheEnd, NoneOnItsWay,
                  VerifiedLimitsHold, At
    <3> QED BY <3>1, <3>2
  <2> QED BY <1>2, <2>2, <2>3 DEF WriteArmoury
<1>3. CASE ArmouryRefuses
  <2>1. setter' \in Setters /\ setter'.at = "error" /\ updates' = updates
    BY <1>0, <1>3, GoTypes DEF Places, ArmouryRefuses
  <2> QED BY <1>0, <2>1, ElsewhereHolds DEF LimitsTypeOK
<1>4. CASE SendCommand
  <2>1. updates' = updates /\ setter.at = "send"
    BY <1>4 DEF SendCommand, At
  <2>2. CASE setter' = [setter EXCEPT !.index = @ + 1]
    <3>1. setter' \in Setters /\ setter'.at = setter.at
      BY <1>0, <2>2 DEF Setters
    <3> QED BY <1>0, <2>1, <3>1, ElsewhereHolds DEF LimitsTypeOK
  <2>3. CASE Go("settle", SettleTimeout)
    <3>1. setter' \in Setters /\ setter'.at = "settle"
      BY <1>0, <2>3, GoTypes, Arithmetic DEF Places
    <3> QED BY <1>0, <2>1, <3>1, ElsewhereHolds DEF LimitsTypeOK
  <2> QED BY <1>4, <2>2, <2>3 DEF SendCommand
<1>5. CASE Agreed
  <2>1. /\ setter' \in Setters /\ setter'.at = "hold" /\ setter'.timer = Hold
        /\ setter'.cappedOk = setter.cappedOk
    BY <1>0, <1>5, GoTypes, Arithmetic DEF Places, Agreed
  <2>2. updates' = updates /\ smu' = smu /\ request' = request
    BY <1>5 DEF Agreed, Quiet
  <2>3. DueInTime'
    BY <1>0, <2>1, <2>2, Arithmetic DEF DueInTime
  <2>4. Verified(setter.cappedOk)
    BY <1>5 DEF Agreed
  <2>5. HeldToTheEnd'
    BY <2>1, <2>2, <2>4 DEF HeldToTheEnd, Verified
  <2> QED BY <1>0, <2>1, <2>2, <2>3, <2>5
          DEF HoldInv, LimitsTypeOK, NoneOnItsWay, VerifiedLimitsHold, At
<1>6. CASE NotYetAgreed
  <2>1. updates' \in [Limits -> 0..BiosLatency]
    BY <1>0, <1>6, TimeBringsUpdates DEF NotYetAgreed
  <2>2. setter' = [setter EXCEPT !.timer = @ - 1] /\ setter.timer > 0 /\ setter.at = "settle"
    BY <1>6 DEF NotYetAgreed, At
  <2>3. setter' \in Setters /\ setter'.at = "settle"
    BY <1>0, <2>2 DEF Setters
  <2> QED BY <2>1, <2>3, ElsewhereHolds DEF LimitsTypeOK
<1>7. CASE StillHeld
  <2>1. /\ updates' \in [Limits -> 0..BiosLatency]
        /\ \A limit \in Limits : updates'[limit] = 0 \/ updates'[limit] = updates[limit] - 1
    BY <1>0, <1>7, TimeBringsUpdates DEF StillHeld
  <2>2. setter.timer > 0 /\ setter.timer - 1 \in Nat /\ At("hold")
    BY <1>0, <1>7 DEF StillHeld
  <2>3. setter' \in Setters /\ setter'.at = "held" /\ setter'.timer = setter.timer - 1
    BY <1>0, <1>7, <2>2, GoTypes DEF Places, StillHeld
  <2>4. DueInTime'
    <3> SUFFICES ASSUME NEW limit \in Limits PROVE updates'[limit] <= setter.timer - 1
      BY <2>3 DEF DueInTime
    <3>1. updates[limit] \in Nat /\ updates[limit] <= setter.timer
      BY <1>0, <2>2, Arithmetic DEF HoldInv, DueInTime
    <3> QED BY <1>0, <2>1, <2>2, <3>1
  <2> QED BY <2>1, <2>3, <2>4
          DEF HoldInv, LimitsTypeOK, HeldToTheEnd, NoneOnItsWay, VerifiedLimitsHold, At
<1>8. CASE HeldAgain
  <2>1. /\ setter' \in Setters /\ setter'.at = "hold" /\ setter'.timer = setter.timer
        /\ setter'.cappedOk = setter.cappedOk
    BY <1>0, <1>8, GoTypes DEF Places, HeldAgain
  <2>2. updates' = updates /\ smu' = smu /\ request' = request
    BY <1>8 DEF HeldAgain, Quiet
  <2>3. At("held") /\ Verified(setter.cappedOk)
    BY <1>8 DEF HeldAgain
  <2>4. DueInTime'
    BY <2>1, <2>2, <2>3 DEF HoldInv, DueInTime
  <2>5. HeldToTheEnd'
    BY <2>1, <2>2, <2>3 DEF HeldToTheEnd, Verified
  <2> QED BY <1>0, <2>1, <2>2, <2>4, <2>5
          DEF HoldInv, LimitsTypeOK, NoneOnItsWay, VerifiedLimitsHold, At
<1>9. CASE Report
  <2>1. At("hold") /\ setter.timer = 0 /\ Verified(setter.cappedOk)
    BY <1>9 DEF Report, HoldInv, HeldToTheEnd
  <2>2. updates' = updates /\ smu' = smu /\ request' = request
    BY <1>9 DEF Report, Quiet
  <2>3. (smu["fast"] < request["fast"]) \in BOOLEAN
    OBVIOUS
  <2>4. /\ setter' \in Setters /\ setter'.at = "ok"
        /\ setter'.warned = (smu["fast"] < request["fast"])
    BY <1>0, <1>9, <2>3 DEF Report, Setters, Places
  <2>5. \A limit \in Limits : updates[limit] = 0
    BY <1>0, <2>1, Arithmetic DEF HoldInv, DueInTime
  <2>6. VerifiedLimitsHold'
    BY <2>1, <2>2, <2>4 DEF VerifiedLimitsHold, Verified
  <2> QED BY <1>0, <2>2, <2>4, <2>5, <2>6
          DEF HoldInv, LimitsTypeOK, DueInTime, HeldToTheEnd, NoneOnItsWay, At
<1>10. CASE ReportFails
  <2>1. setter' \in Setters /\ setter'.at = "error" /\ updates' = updates
    BY <1>0, <1>10, GoTypes DEF Places, ReportFails
  <2> QED BY <1>0, <2>1, ElsewhereHolds DEF LimitsTypeOK
<1>11. CASE AttemptFails
  <2>1. PICK capped \in BOOLEAN :
          setter' = [setter EXCEPT !.at = IF setter.attempt < 2 THEN "retry" ELSE "error",
                                   !.timer = RetryDelay, !.attempt = @ + 1,
                                   !.cappedOk = capped]
    <3>1. PICK readable \in BOOLEAN :
            setter' = [setter EXCEPT !.at = IF setter.attempt < 2 THEN "retry" ELSE "error",
                                     !.timer = RetryDelay, !.attempt = @ + 1,
                                     !.cappedOk = readable /\ Verified(TRUE)]
      BY <1>11 DEF AttemptFails
    <3>2. (readable /\ Verified(TRUE)) \in BOOLEAN
      OBVIOUS
    <3> QED BY <3>1, <3>2, Zenon
  <2>2. updates' = updates
    BY <1>11 DEF AttemptFails
  <2>3. CASE setter.attempt < 2
    <3>1. setter' = [setter EXCEPT !.at = "retry", !.timer = RetryDelay,
                                   !.attempt = setter.attempt + 1, !.cappedOk = capped]
      BY <2>1, <2>3
    <3>2. "retry" \in Places /\ RetryDelay \in Nat /\ setter.attempt + 1 \in Nat
      BY <1>0, Arithmetic DEF Places
    <3>3. setter' \in Setters /\ setter'.at = "retry"
      BY <1>0, <3>1, <3>2, FailureTypes, Zenon
    <3> QED BY <1>0, <2>2, <3>3, ElsewhereHolds DEF LimitsTypeOK
  <2>4. CASE ~(setter.attempt < 2)
    <3>1. setter' = [setter EXCEPT !.at = "error", !.timer = RetryDelay,
                                   !.attempt = setter.attempt + 1, !.cappedOk = capped]
      BY <2>1, <2>4
    <3>2. "error" \in Places /\ RetryDelay \in Nat /\ setter.attempt + 1 \in Nat
      BY <1>0, Arithmetic DEF Places
    <3>3. setter' \in Setters /\ setter'.at = "error"
      BY <1>0, <3>1, <3>2, FailureTypes, Zenon
    <3> QED BY <1>0, <2>2, <3>3, ElsewhereHolds DEF LimitsTypeOK
  <2> QED BY <2>3, <2>4
<1>12. CASE WaitToRetry
  <2>1. updates' \in [Limits -> 0..BiosLatency]
    BY <1>0, <1>12, TimeBringsUpdates DEF WaitToRetry
  <2>2. setter' = [setter EXCEPT !.timer = @ - 1] /\ setter.timer > 0 /\ setter.at = "retry"
    BY <1>12 DEF WaitToRetry, At
  <2>3. setter' \in Setters /\ setter'.at = "retry"
    BY <1>0, <2>2 DEF Setters
  <2> QED BY <2>1, <2>3, ElsewhereHolds DEF LimitsTypeOK
<1>13. CASE Resend
  <2>1. setter' \in Setters /\ setter'.at = "send" /\ updates' = updates
    BY <1>0, <1>13, GoTypes DEF Places, Resend
  <2> QED BY <1>0, <2>1, ElsewhereHolds DEF LimitsTypeOK
<1> QED BY <1>1, <1>2, <1>3, <1>4, <1>5, <1>6, <1>7, <1>8, <1>9, <1>10, <1>11, <1>12, <1>13
        DEF SetTdp

LEMMA HoldInvKept == HoldInv /\ [PowerLimitsNext]_limitVars => HoldInv'
<1> SUFFICES ASSUME HoldInv, [PowerLimitsNext]_limitVars PROVE HoldInv'
  OBVIOUS
<1>1. CASE SetTdp
  BY <1>1, SetTdpHolds
<1>2. CASE \E limit \in Limits : Land(limit)
  BY <1>2, LandHolds
<1>3. CASE UNCHANGED limitVars
  BY <1>3 DEF limitVars, HoldInv, LimitsTypeOK, DueInTime, HeldToTheEnd, NoneOnItsWay,
              VerifiedLimitsHold, Verified, At
<1> QED BY <1>1, <1>2, <1>3 DEF PowerLimitsNext

(* Limits that set_tdp has reported as set are in force and stay in force: *)
(* no update of the BIOS is left that could change them (Sysfs::set_tdp).  *)
THEOREM LimitsStayVerified == LimitsSpec => []VerifiedLimitsHold
<1>1. HoldInv => VerifiedLimitsHold
  BY DEF HoldInv
<1> QED BY <1>1, HoldInvInit, HoldInvKept, PTL DEF LimitsSpec

----------------------------------------------------------------------------
(* Part 2. Fans: integers, and chains along the points of a curve.         *)

(* Every set of naturals has a least element: induction, where it is       *)
(* needed, is on the least failure.                                        *)
LEMMA LeastNatural ==
  ASSUME NEW S \in SUBSET Nat, S # {}
  PROVE  \E n \in S : \A m \in S : n <= m
<1> DEFINE R == OpToRel(<, Nat)
<1>1. \A m, n \in Nat : m < n => <<m, n>> \in R
  BY DEF OpToRel
<1>2. IsWellFoundedOn(R, Nat)
  BY NatLessThanWellFounded
<1> HIDE DEF R
<1>3. PICK n \in S : \A m \in S : ~(<<m, n>> \in R)
  BY <1>2, WFMin
<1>4. ASSUME NEW m \in S PROVE n <= m
  <2>1. m \in Nat /\ n \in Nat /\ ~(m < n)
    BY <1>1, <1>3
  <2> QED BY <2>1
<1> QED BY <1>4

(* Tuples over the points, each point computed from a neighbour.           *)
ChainsUp(f, v, g) == f[1] = v /\ \A i \in 2 .. POINT_COUNT : f[i] = g[<<i, f[i-1]>>]
ChainsDown(f, v, g) ==
  f[POINT_COUNT] = v /\ \A i \in Points \ {POINT_COUNT} : f[i] = g[<<i, f[i+1]>>]

(* A recursion from the first point up has a solution: it is unrolled.     *)
LEMMA ChainUp ==
  ASSUME NEW V, NEW v \in V, NEW g \in [Points \X V -> V]
  PROVE  \E f \in [Points -> V] : ChainsUp(f, v, g)
<1> DEFINE p2 == g[<<2, v>>]
           p3 == g[<<3, p2>>]
           p4 == g[<<4, p3>>]
           p5 == g[<<5, p4>>]
           p6 == g[<<6, p5>>]
           p7 == g[<<7, p6>>]
           p8 == g[<<8, p7>>]
<1>1. Points = 1 .. 8 /\ POINT_COUNT = 8
  BY DEF Points, POINT_COUNT
<1>2. p2 \in V
  BY <1>1
<1> HIDE DEF p2
<1>3. p3 \in V
  BY <1>1, <1>2
<1> HIDE DEF p3
<1>4. p4 \in V
  BY <1>1, <1>3
<1> HIDE DEF p4
<1>5. p5 \in V
  BY <1>1, <1>4
<1> HIDE DEF p5
<1>6. p6 \in V
  BY <1>1, <1>5
<1> HIDE DEF p6
<1>7. p7 \in V
  BY <1>1, <1>6
<1> HIDE DEF p7
<1>8. p8 \in V
  BY <1>1, <1>7
<1> HIDE DEF p8
<1> DEFINE f == [i \in Points |-> IF i = 1 THEN v ELSE IF i = 2 THEN p2 ELSE IF i = 3 THEN p3
                                  ELSE IF i = 4 THEN p4 ELSE IF i = 5 THEN p5 ELSE IF i = 6 THEN p6
                                  ELSE IF i = 7 THEN p7 ELSE p8]
<1>9. f \in [Points -> V]
  BY <1>1, <1>2, <1>3, <1>4, <1>5, <1>6, <1>7, <1>8
<1>10. /\ f[1] = v /\ f[2] = p2 /\ f[3] = p3 /\ f[4] = p4 /\ f[5] = p5 /\ f[6] = p6 /\ f[7] = p7
       /\ f[8] = p8
  BY <1>1
<1> HIDE DEF f
<1>11. ASSUME NEW i \in 2 .. POINT_COUNT PROVE f[i] = g[<<i, f[i-1]>>]
  <2>1. i = 2 \/ i = 3 \/ i = 4 \/ i = 5 \/ i = 6 \/ i = 7 \/ i = 8
    BY <1>1
  <2>2. /\ p2 = g[<<2, v>>] /\ p3 = g[<<3, p2>>] /\ p4 = g[<<4, p3>>] /\ p5 = g[<<5, p4>>]
        /\ p6 = g[<<6, p5>>] /\ p7 = g[<<7, p6>>] /\ p8 = g[<<8, p7>>]
    BY DEF p2, p3, p4, p5, p6, p7, p8
  <2>3. f[2] = g[<<2, f[1]>>]
    BY <1>10, <2>2
  <2>4. f[3] = g[<<3, f[2]>>]
    BY <1>10, <2>2
  <2>5. f[4] = g[<<4, f[3]>>]
    BY <1>10, <2>2
  <2>6. f[5] = g[<<5, f[4]>>]
    BY <1>10, <2>2
  <2>7. f[6] = g[<<6, f[5]>>]
    BY <1>10, <2>2
  <2>8. f[7] = g[<<7, f[6]>>]
    BY <1>10, <2>2
  <2>9. f[8] = g[<<8, f[7]>>]
    BY <1>10, <2>2
  <2>10. CASE i = 2
    <3>1. i - 1 = 1
      BY <2>10
    <3> QED BY <2>3, <2>10, <3>1
  <2>11. CASE i = 3
    <3>1. i - 1 = 2
      BY <2>11
    <3> QED BY <2>4, <2>11, <3>1
  <2>12. CASE i = 4
    <3>1. i - 1 = 3
      BY <2>12
    <3> QED BY <2>5, <2>12, <3>1
  <2>13. CASE i = 5
    <3>1. i - 1 = 4
      BY <2>13
    <3> QED BY <2>6, <2>13, <3>1
  <2>14. CASE i = 6
    <3>1. i - 1 = 5
      BY <2>14
    <3> QED BY <2>7, <2>14, <3>1
  <2>15. CASE i = 7
    <3>1. i - 1 = 6
      BY <2>15
    <3> QED BY <2>8, <2>15, <3>1
  <2>16. CASE i = 8
    <3>1. i - 1 = 7
      BY <2>16
    <3> QED BY <2>9, <2>16, <3>1
  <2> QED BY <2>1, <2>10, <2>11, <2>12, <2>13, <2>14, <2>15, <2>16
<1> QED BY <1>9, <1>10, <1>11 DEF ChainsUp

(* What holds of the first point and is passed on holds of every point.    *)
LEMMA PointsUp ==
  ASSUME NEW S \in SUBSET Points, 1 \in S, \A i \in Points \ {POINT_COUNT} : i \in S => i + 1 \in S
  PROVE  S = Points
<1>1. Points = 1 .. 8 /\ POINT_COUNT = 8
  BY DEF Points, POINT_COUNT
<1>2. 2 \in S /\ 3 \in S /\ 4 \in S
  BY <1>1
<1>3. 5 \in S /\ 6 \in S /\ 7 \in S /\ 8 \in S
  BY <1>1, <1>2
<1>4. \A i \in Points : i \in S
  <2>1. \A i \in Points : i = 1 \/ i = 2 \/ i = 3 \/ i = 4 \/ i = 5 \/ i = 6 \/ i = 7 \/ i = 8
    BY <1>1
  <2>2. POINT_COUNT = 8
    BY <1>1
  <2> QED BY <1>2, <1>3, <2>1, <2>2, Zenon
<1> QED BY <1>4

(* The same from the last point down.                                      *)
LEMMA ChainDown ==
  ASSUME NEW V, NEW v \in V, NEW g \in [Points \X V -> V]
  PROVE  \E f \in [Points -> V] : ChainsDown(f, v, g)
<1> DEFINE n == POINT_COUNT + 1
           h == [q \in Points \X V |-> g[<<n - q[1], q[2]>>]]
<1>1. Points = 1 .. 8 /\ POINT_COUNT = 8
  BY DEF Points, POINT_COUNT
<1>2. h \in [Points \X V -> V]
  BY <1>1
<1>3. \A i \in Points, w \in V : h[<<i, w>>] = g[<<n - i, w>>]
  OBVIOUS
<1> HIDE DEF h
<1>4. PICK e \in [Points -> V] : ChainsUp(e, v, h)
  BY <1>2, ChainUp
<1> DEFINE f == [i \in Points |-> e[n - i]]
<1>5. f \in [Points -> V] /\ \A i \in Points : f[i] = e[n - i]
  BY <1>1
<1> HIDE DEF f
<1>6. ASSUME NEW i \in Points \ {POINT_COUNT} PROVE f[i] = g[<<i, f[i+1]>>]
  <2>1. n - i \in 2 .. POINT_COUNT /\ i + 1 \in Points /\ n - (i + 1) = (n - i) - 1 /\ n - (n - i) = i
    BY <1>1
  <2>2. f[i] = h[<<n - i, e[(n - i) - 1]>>] /\ f[i + 1] = e[(n - i) - 1]
    BY <1>4, <1>5, <2>1 DEF ChainsUp
  <2>3. e[(n - i) - 1] \in V /\ n - i \in Points
    BY <1>1, <2>1
  <2> QED BY <1>3, <2>1, <2>2, <2>3
<1>7. f[POINT_COUNT] = v
  BY <1>1, <1>4, <1>5 DEF ChainsUp
<1> QED BY <1>5, <1>6, <1>7 DEF ChainsDown

(* The same from the last.                                                 *)
LEMMA PointsDown ==
  ASSUME NEW S \in SUBSET Points, POINT_COUNT \in S,
         \A i \in Points \ {POINT_COUNT} : i + 1 \in S => i \in S
  PROVE  S = Points
<1>1. Points = 1 .. 8 /\ POINT_COUNT = 8
  BY DEF Points, POINT_COUNT
<1>2. 7 \in S /\ 6 \in S /\ 5 \in S
  BY <1>1
<1>3. 4 \in S /\ 3 \in S /\ 2 \in S /\ 1 \in S
  BY <1>1, <1>2
<1>4. \A i \in Points : i \in S
  <2>1. \A i \in Points : i = 1 \/ i = 2 \/ i = 3 \/ i = 4 \/ i = 5 \/ i = 6 \/ i = 7 \/ i = 8
    BY <1>1
  <2>2. POINT_COUNT = 8
    BY <1>1
  <2> QED BY <1>2, <1>3, <2>1, <2>2, Zenon
<1> QED BY <1>4

Pairs == Int \X Int

LEMMA MinOfTwo ==
  ASSUME NEW a \in Int, NEW b \in Int
  PROVE  Min({a, b}) = IF a <= b THEN a ELSE b
BY DEF Min

LEMMA MaxOfTwo ==
  ASSUME NEW a \in Int, NEW b \in Int
  PROVE  Max({a, b}) = IF a >= b THEN a ELSE b
BY DEF Max

(* Clamp stays in its range, and leaves what is in it alone.               *)
LEMMA ClampIs ==
  ASSUME NEW v \in Int, NEW low \in Int, NEW high \in Int, low <= high
  PROVE  Clamp(v, low, high) \in low .. high /\ (v \in low .. high => Clamp(v, low, high) = v)
<1>1. Min({v, high}) = IF v <= high THEN v ELSE high
  BY MinOfTwo
<1> DEFINE m == Min({v, high})
<1>2. m \in Int
  BY <1>1
<1> HIDE DEF m
<1>3. Max({low, m}) = IF low >= m THEN low ELSE m
  BY <1>2, MaxOfTwo
<1> QED BY <1>1, <1>2, <1>3 DEF Clamp, m

----------------------------------------------------------------------------
(* Part 2. The editor: enforce_curve.                                      *)

Degrees == TEMP_MIN .. TEMP_MAX
Duties == PWM_MIN .. PWM_MAX

LEMMA Scales ==
  /\ TEMP_MIN = 20 /\ TEMP_MAX = 110 /\ PWM_MIN = 0 /\ PWM_MAX = 255 /\ POINT_COUNT = 8
  /\ Points = 1 .. 8 /\ HIGH_POWER_POINT_TEMP_C = 80 /\ HIGH_POWER_POINT_PWM = 204
  /\ HIGH_POWER_FINAL_TEMP_C = 90
BY DEF TEMP_MIN, TEMP_MAX, PWM_MIN, PWM_MAX, POINT_COUNT, Points, HIGH_POWER_POINT_TEMP_C,
       HIGH_POWER_POINT_PWM, HIGH_POWER_FINAL_TEMP_C

(* A clamped point is on the chart.                                        *)
LEMMA ClampedIs ==
  ASSUME NEW p \in Pairs
  PROVE  Clamped(p) \in Degrees \X Duties
<1>1. p[1] \in Int /\ p[2] \in Int
  BY DEF Pairs
<1>2. Clamp(p[1], TEMP_MIN, TEMP_MAX) \in Degrees
  <2>1. TEMP_MIN \in Int /\ TEMP_MAX \in Int /\ TEMP_MIN <= TEMP_MAX
    BY Scales
  <2> QED BY <1>1, <2>1, ClampIs DEF Degrees
<1>3. Clamp(p[2], PWM_MIN, PWM_MAX) \in Duties
  <2>1. PWM_MIN \in Int /\ PWM_MAX \in Int /\ PWM_MIN <= PWM_MAX
    BY Scales
  <2> QED BY <1>1, <2>1, ClampIs DEF Duties
<1> QED BY <1>2, <1>3 DEF Clamped

LEMMA ChartIsPairs == Degrees \X Duties \subseteq Pairs
<1>1. Degrees \subseteq Int /\ Duties \subseteq Int
  BY Scales DEF Degrees, Duties
<1> QED BY <1>1 DEF Pairs

(* A point pushed away from the one before it is not below it.             *)
LEMMA AfterIs ==
  ASSUME NEW p \in Pairs, NEW q \in Pairs
  PROVE  /\ After(p, q) \in Pairs
         /\ p \in Degrees \X Duties /\ q \in Degrees \X Duties =>
              /\ After(p, q) \in Degrees \X Duties
              /\ After(p, q)[1] >= q[1] /\ After(p, q)[2] >= q[2]
<1>1. p[1] \in Int /\ p[2] \in Int /\ q[1] \in Int /\ q[2] \in Int
  BY DEF Pairs
<1>2. Min({q[1] + 1, TEMP_MAX}) = IF q[1] + 1 <= TEMP_MAX THEN q[1] + 1 ELSE TEMP_MAX
  BY <1>1, MinOfTwo, Scales
<1>3. Max({p[2], q[2]}) = IF p[2] >= q[2] THEN p[2] ELSE q[2]
  BY <1>1, MaxOfTwo
<1> DEFINE t == IF p[1] <= q[1] THEN Min({q[1] + 1, TEMP_MAX}) ELSE p[1]
           d == Max({p[2], q[2]})
<1>4. After(p, q) = <<t, d>>
  BY DEF After
<1>5. t \in Int /\ d \in Int
  BY <1>1, <1>2, <1>3, Scales
<1>6. p \in Degrees \X Duties /\ q \in Degrees \X Duties =>
        t \in Degrees /\ d \in Duties /\ t >= q[1] /\ d >= q[2]
  BY <1>1, <1>2, <1>3, Scales DEF Degrees, Duties
<1> HIDE DEF t, d
<1> QED BY <1>4, <1>5, <1>6 DEF Pairs

LEMMA BeforeIs ==
  ASSUME NEW p \in Pairs, NEW q \in Pairs
  PROVE  Before(p, q) \in Pairs
<1>1. p[1] \in Int /\ p[2] \in Int /\ q[1] \in Int /\ q[2] \in Int
  BY DEF Pairs
<1>2. Max({q[1] - 1, TEMP_MIN}) = IF q[1] - 1 >= TEMP_MIN THEN q[1] - 1 ELSE TEMP_MIN
  BY <1>1, MaxOfTwo, Scales
<1>3. Min({p[2], q[2]}) = IF p[2] <= q[2] THEN p[2] ELSE q[2]
  BY <1>1, MinOfTwo
<1> QED BY <1>1, <1>2, <1>3, Scales DEF Before, Pairs

LEMMA ClampedInPairs == \A p \in Pairs : Clamped(p) \in Pairs
BY ClampedIs, Scales DEF Pairs, Degrees, Duties

(* enforce_curve: whatever is pushed apart first, the last pass settles it.*)
LEMMA EnforcedIsSound ==
  ASSUME NEW c \in [Points -> Pairs], NEW index \in Points
  PROVE  EnforceCurve(c, index) \in [Points -> Pairs] /\ Valid(EnforceCurve(c, index))
<1> DEFINE bounded == LET p == Clamped(c[index]) IN
                      <<Clamp(p[1], TEMP_MIN + index - 1, TEMP_MAX - (POINT_COUNT - index)), p[2]>>
           forward[i \in Points] ==
             IF i < index THEN c[i] ELSE IF i = index THEN bounded
             ELSE Clamped(After(c[i], forward[i-1]))
           backward[i \in Points] ==
             IF i >= index THEN forward[i] ELSE Clamped(Before(c[i], backward[i+1]))
           settled[i \in Points] ==
             IF i = 1 THEN Clamped(backward[1]) ELSE After(Clamped(backward[i]), settled[i-1])
<1>1. EnforceCurve(c, index) = [i \in Points |-> settled[i]]
  BY DEF EnforceCurve
<1>2. bounded \in Pairs
  <2> DEFINE p == Clamped(c[index])
  <2>1. p \in Pairs
    BY ClampedInPairs
  <2>2. p[1] \in Int /\ p[2] \in Int
    BY <2>1 DEF Pairs
  <2> HIDE DEF p
  <2>3. Clamp(p[1], TEMP_MIN + index - 1, TEMP_MAX - (POINT_COUNT - index)) \in Int
    <3> DEFINE low == TEMP_MIN + index - 1
               high == TEMP_MAX - (POINT_COUNT - index)
    <3>1. low \in Int /\ high \in Int /\ low <= high
      BY Scales
    <3> HIDE DEF low, high
    <3>2. Clamp(p[1], low, high) \in low .. high
      BY <2>2, <3>1, ClampIs
    <3> QED BY <3>1, <3>2 DEF low, high
  <2> QED BY <2>2, <2>3 DEF Pairs, p
<1> HIDE DEF bounded
<1>3. forward \in [Points -> Pairs]
  <2> DEFINE body(f) == [i \in Points |-> IF i < index THEN c[i] ELSE IF i = index THEN bounded
                                          ELSE Clamped(After(c[i], f[i-1]))]
             g == [q \in Points \X Pairs |->
                     IF q[1] < index THEN c[q[1]] ELSE IF q[1] = index THEN bounded
                     ELSE Clamped(After(c[q[1]], q[2]))]
             v == IF 1 < index THEN c[1] ELSE bounded
  <2>1. v \in Pairs
    BY <1>2, Scales
  <2>2. \A i \in Points, p \in Pairs : Clamped(After(c[i], p)) \in Pairs
    BY AfterIs, ClampedInPairs
  <2>3. g \in [Points \X Pairs -> Pairs]
    BY <1>2, <2>2
  <2>4. \A i \in Points, p \in Pairs : g[<<i, p>>] =
          IF i < index THEN c[i] ELSE IF i = index THEN bounded ELSE Clamped(After(c[i], p))
    OBVIOUS
  <2> HIDE DEF g
  <2>5. PICK f \in [Points -> Pairs] : ChainsUp(f, v, g)
    BY <2>1, <2>3, ChainUp
  <2>6. f = body(f)
    <3>1. ASSUME NEW i \in Points PROVE f[i] = body(f)[i]
      <4>1. CASE i = 1
        BY <2>5, <4>1, Scales DEF ChainsUp
      <4>2. CASE i # 1
        <5>1. i \in 2 .. POINT_COUNT /\ i - 1 \in Points
          BY <4>2, Scales
        <5> QED BY <2>4, <2>5, <5>1 DEF ChainsUp
      <4> QED BY <4>1, <4>2
    <3> QED BY <3>1
  <2>7. forward = CHOOSE h : h = body(h)
    OBVIOUS
  <2> HIDE DEF forward, body
  <2>8. forward = body(forward)
    BY <2>6, <2>7
  <2>9. /\ DOMAIN forward = Points
        /\ \A i \in Points : forward[i] = IF i < index THEN c[i] ELSE IF i = index THEN bounded
                                          ELSE Clamped(After(c[i], forward[i-1]))
    BY <2>8 DEF body
  <2> DEFINE S == {i \in Points : forward[i] \in Pairs}
  <2>10. 1 \in S
    BY <1>2, <2>9, Scales
  <2>11. \A i \in Points \ {POINT_COUNT} : i \in S => i + 1 \in S
    <3>1. \A i \in Points \ {POINT_COUNT} : i + 1 \in Points /\ (i + 1) - 1 = i
      BY Scales
    <3> QED BY <1>2, <2>2, <2>9, <3>1
  <2>12. S = Points
    <3>1. S \in SUBSET Points
      OBVIOUS
    <3> HIDE DEF S
    <3> QED BY <2>10, <2>11, <3>1, PointsUp
  <2>13. forward = [i \in Points |-> forward[i]]
    BY <2>8 DEF body
  <2> QED BY <2>12, <2>13
<1> HIDE DEF forward
<1>4. \A i \in Points : backward[i] \in Pairs
  <2> DEFINE body(f) == [i \in Points |-> IF i >= index THEN forward[i]
                                          ELSE Clamped(Before(c[i], f[i+1]))]
             g == [q \in Points \X Pairs |->
                     IF q[1] >= index THEN forward[q[1]] ELSE Clamped(Before(c[q[1]], q[2]))]
             v == forward[POINT_COUNT]
  <2>1. v \in Pairs
    BY <1>3, Scales
  <2>2. \A i \in Points, p \in Pairs : Clamped(Before(c[i], p)) \in Pairs
    BY BeforeIs, ClampedInPairs
  <2>3. g \in [Points \X Pairs -> Pairs]
    BY <1>3, <2>2
  <2>4. \A i \in Points, p \in Pairs : g[<<i, p>>] =
          IF i >= index THEN forward[i] ELSE Clamped(Before(c[i], p))
    OBVIOUS
  <2> HIDE DEF g
  <2>5. PICK f \in [Points -> Pairs] : ChainsDown(f, v, g)
    BY <2>1, <2>3, ChainDown
  <2>6. f = body(f)
    <3>1. ASSUME NEW i \in Points PROVE f[i] = body(f)[i]
      <4>1. CASE i = POINT_COUNT
        BY <2>5, <4>1, Scales DEF ChainsDown
      <4>2. CASE i # POINT_COUNT
        <5>1. i \in Points \ {POINT_COUNT} /\ i + 1 \in Points
          BY <4>2, Scales
        <5> QED BY <2>4, <2>5, <5>1 DEF ChainsDown
      <4> QED BY <4>1, <4>2
    <3> QED BY <3>1
  <2>7. backward = CHOOSE h : h = body(h)
    OBVIOUS
  <2> HIDE DEF backward, body
  <2>8. backward = body(backward)
    BY <2>6, <2>7
  <2>9. \A i \in Points : backward[i] = IF i >= index THEN forward[i]
                                        ELSE Clamped(Before(c[i], backward[i+1]))
    BY <2>8 DEF body
  <2> DEFINE S == {i \in Points : backward[i] \in Pairs}
  <2>10. POINT_COUNT \in S
    BY <1>3, <2>9, Scales
  <2>11. \A i \in Points \ {POINT_COUNT} : i + 1 \in S => i \in S
    BY <1>3, <2>2, <2>9, Scales
  <2>12. S = Points
    BY <2>10, <2>11, PointsDown
  <2> QED BY <2>12
<1> HIDE DEF backward
<1>5. \A i \in Points : Clamped(backward[i]) \in Degrees \X Duties /\ Clamped(backward[i]) \in Pairs
  BY <1>4, ClampedIs, ClampedInPairs
<1>6. /\ settled[1] = Clamped(backward[1])
      /\ \A i \in 2 .. POINT_COUNT : settled[i] = After(Clamped(backward[i]), settled[i-1])
  <2> DEFINE body(f) == [i \in Points |-> IF i = 1 THEN Clamped(backward[1])
                                          ELSE After(Clamped(backward[i]), f[i-1])]
             g == [q \in Points \X Pairs |-> After(Clamped(backward[q[1]]), q[2])]
             v == Clamped(backward[1])
  <2>1. v \in Pairs
    BY <1>5, Scales
  <2>2. g \in [Points \X Pairs -> Pairs]
    BY <1>5, AfterIs
  <2>3. \A i \in Points, p \in Pairs : g[<<i, p>>] = After(Clamped(backward[i]), p)
    OBVIOUS
  <2> HIDE DEF g
  <2>4. PICK f \in [Points -> Pairs] : ChainsUp(f, v, g)
    BY <2>1, <2>2, ChainUp
  <2>5. f = body(f)
    <3>1. ASSUME NEW i \in Points PROVE f[i] = body(f)[i]
      <4>1. CASE i = 1
        BY <2>4, <4>1, Scales DEF ChainsUp
      <4>2. CASE i # 1
        <5>1. i \in 2 .. POINT_COUNT /\ i - 1 \in Points
          BY <4>2, Scales
        <5> QED BY <2>3, <2>4, <4>2, <5>1 DEF ChainsUp
      <4> QED BY <4>1, <4>2
    <3> QED BY <3>1
  <2>6. settled = CHOOSE h : h = body(h)
    OBVIOUS
  <2> HIDE DEF settled, body
  <2>7. settled = body(settled)
    BY <2>5, <2>6
  <2>8. \A i \in Points : settled[i] = IF i = 1 THEN Clamped(backward[1])
                                       ELSE After(Clamped(backward[i]), settled[i-1])
    BY <2>7 DEF body
  <2> QED BY <2>8, Scales
<1> HIDE DEF settled
<1>7. \A i \in Points : settled[i] \in Degrees \X Duties
  <2> DEFINE S == {i \in Points : settled[i] \in Degrees \X Duties}
  <2>1. 1 \in S
    BY <1>5, <1>6, Scales
  <2>2. \A i \in Points \ {POINT_COUNT} : i \in S => i + 1 \in S
    <3> SUFFICES ASSUME NEW i \in Points \ {POINT_COUNT}, i \in S PROVE i + 1 \in S
      OBVIOUS
    <3>1. i + 1 \in Points /\ i + 1 \in 2 .. POINT_COUNT /\ (i + 1) - 1 = i
      BY Scales
    <3>2. settled[i] \in Pairs
      BY ChartIsPairs
    <3> QED BY <1>5, <1>6, <3>1, <3>2, AfterIs
  <2>3. S = Points
    <3>1. S \in SUBSET Points
      OBVIOUS
    <3> HIDE DEF S
    <3> QED BY <2>1, <2>2, <3>1, PointsUp
  <2> QED BY <2>3
<1>8. \A i \in 2 .. POINT_COUNT : settled[i][1] >= settled[i-1][1] /\ settled[i][2] >= settled[i-1][2]
  <2> SUFFICES ASSUME NEW i \in 2 .. POINT_COUNT
               PROVE  settled[i][1] >= settled[i-1][1] /\ settled[i][2] >= settled[i-1][2]
    OBVIOUS
  <2>1. i \in Points /\ i - 1 \in Points
    BY Scales
  <2>2. settled[i-1] \in Degrees \X Duties /\ settled[i-1] \in Pairs
    BY <1>7, <2>1, ChartIsPairs
  <2> QED BY <1>5, <1>6, <2>1, <2>2, AfterIs
<1> DEFINE e == [i \in Points |-> settled[i]]
<1>9. \A i \in Points : e[i] = settled[i] /\ settled[i] \in Pairs
  BY <1>7, ChartIsPairs
<1>10. Valid(e)
  <2>1. \A i \in Points : e[i][1] \in 0 .. 120 /\ e[i][2] \in 0 .. 255
    <3> SUFFICES ASSUME NEW i \in Points PROVE e[i][1] \in 0 .. 120 /\ e[i][2] \in 0 .. 255
      OBVIOUS
    <3> DEFINE s == settled[i]
    <3>1. s \in Degrees \X Duties /\ e[i] = s
      BY <1>7, <1>9
    <3> HIDE DEF s, e
    <3>2. s[1] \in Degrees /\ s[2] \in Duties
      BY <3>1
    <3>3. s[1] \in 0 .. 120 /\ s[2] \in 0 .. 255
      BY <3>2, Scales DEF Degrees, Duties
    <3> QED BY <3>1, <3>3
  <2>2. \A i \in 2 .. POINT_COUNT : i \in Points /\ i - 1 \in Points
    BY Scales
  <2> QED BY <1>8, <1>9, <2>1, <2>2 DEF Valid
<1> QED BY <1>1, <1>9, <1>10

----------------------------------------------------------------------------
(* Part 2. Rounded quotients, curves, and the duty at a temperature.       *)

LEMMA TimesMono ==
  ASSUME NEW d \in Nat, NEW a \in Int, NEW b \in Int, a <= b
  PROVE  d * a <= d * b
<1>1. d * (b - a) >= 0
  BY SMT
<1>2. d * (b - a) = d * b - d * a
  BY SMT
<1> QED BY <1>1, <1>2

(* The quotient is bounded by multiples, and so it is monotone, and exact  *)
(* on them.                                                                *)
LEMMA Division ==
  ASSUME NEW n \in Int, NEW d \in Nat \ {0}
  PROVE  /\ n \div d \in Int
         /\ d * (n \div d) <= n /\ n < d * (n \div d) + d
BY SMT

LEMMA DivMono ==
  ASSUME NEW n \in Int, NEW m \in Int, NEW d \in Nat \ {0}, n <= m
  PROVE  n \div d <= m \div d
<1> DEFINE q == n \div d
           r == m \div d
<1>1. q \in Int /\ d * q <= n /\ r \in Int /\ m < d * r + d
  BY Division
<1> HIDE DEF q, r
<1>2. SUFFICES ASSUME r + 1 <= q PROVE FALSE
  BY <1>1 DEF q, r
<1>3. d * (r + 1) <= d * q
  BY <1>1, <1>2, TimesMono
<1>4. d * (r + 1) = d * r + d
  BY <1>1
<1> DEFINE u == d * q
           v == d * r
           w == d * (r + 1)
<1>5. u \in Int /\ v \in Int
  BY <1>1
<1>6. w <= u /\ w = v + d /\ u <= n /\ m < v + d
  BY <1>1, <1>3, <1>4
<1> HIDE DEF u, v, w
<1> QED BY <1>5, <1>6

LEMMA DivOf ==
  ASSUME NEW y \in Int, NEW d \in Nat \ {0}, NEW k \in Nat, k < d
  PROVE  (d * y + k) \div d = y
<1> DEFINE n == d * y + k
           q == n \div d
<1>1. n \in Int /\ d * y \in Int
  OBVIOUS
<1>2. q \in Int /\ d * q <= n /\ n < d * q + d
  BY <1>1, Division
<1> HIDE DEF q
<1>3. ~(q + 1 <= y)
  <2> SUFFICES ASSUME q + 1 <= y PROVE FALSE
    OBVIOUS
  <2>1. d * (q + 1) <= d * y /\ d * (q + 1) = d * q + d
    BY <1>2, TimesMono
  <2> QED BY <1>1, <1>2, <2>1
<1>4. ~(y + 1 <= q)
  <2> SUFFICES ASSUME y + 1 <= q PROVE FALSE
    OBVIOUS
  <2>1. d * (y + 1) <= d * q /\ d * (y + 1) = d * y + d
    BY <1>2, TimesMono
  <2> QED BY <1>1, <1>2, <2>1
<1> QED BY <1>2, <1>3, <1>4 DEF q

LEMMA HalfIsLess ==
  ASSUME NEW d \in Nat \ {0}
  PROVE  d \div 2 \in Nat /\ d \div 2 < d
OBVIOUS

LEMMA RoundedIs ==
  ASSUME NEW n \in Int, NEW d \in Nat \ {0}
  PROVE  /\ Rounded(n, d) \in Int
         /\ n >= 0 => Rounded(n, d) = (n + d \div 2) \div d
<1>1. d \div 2 \in Nat
  BY HalfIsLess
<1>2. n + d \div 2 \in Int /\ d \div 2 - n \in Int
  BY <1>1
<1>3. (n + d \div 2) \div d \in Int /\ (d \div 2 - n) \div d \in Int
  BY <1>2, Division
<1> QED BY <1>3 DEF Rounded

(* Rounding keeps order.                                                   *)
LEMMA RoundedMono ==
  ASSUME NEW n \in Nat, NEW m \in Nat, NEW d \in Nat \ {0}, n <= m
  PROVE  Rounded(n, d) <= Rounded(m, d)
<1>1. d \div 2 \in Nat
  BY HalfIsLess
<1>2. n + d \div 2 \in Int /\ m + d \div 2 \in Int /\ n + d \div 2 <= m + d \div 2
  BY <1>1
<1>3. (n + d \div 2) \div d <= (m + d \div 2) \div d
  BY <1>2, DivMono
<1>4. n \in Int /\ n >= 0 /\ m \in Int /\ m >= 0
  OBVIOUS
<1>5. Rounded(n, d) = (n + d \div 2) \div d
  BY <1>4, RoundedIs
<1>6. Rounded(m, d) = (m + d \div 2) \div d
  BY <1>4, RoundedIs
<1> QED BY <1>3, <1>5, <1>6

(* Rounding keeps whole quotients.                                         *)
LEMMA RoundedOf ==
  ASSUME NEW y \in Nat, NEW d \in Nat \ {0}
  PROVE  d * y \in Nat /\ Rounded(d * y, d) = y
<1>1. d * y \in Nat
  BY SMT
<1>2. Rounded(d * y, d) = (d * y + d \div 2) \div d
  <2> DEFINE n == d * y
  <2>1. n \in Int /\ n >= 0
    BY <1>1
  <2> HIDE DEF n
  <2>2. Rounded(n, d) = (n + d \div 2) \div d
    BY <2>1, RoundedIs
  <2> QED BY <2>2 DEF n
<1> QED BY <1>1, <1>2, HalfIsLess, DivOf

Curves == {c \in [Points -> Pairs] : Valid(c)}

LEMMA CurveIs ==
  ASSUME NEW c \in Curves, NEW i \in Points
  PROVE  c[i][1] \in 0 .. 120 /\ c[i][2] \in 0 .. 255
BY DEF Curves, Valid

(* A curve rises between any two of its points.                            *)
LEMMA CurveRises ==
  ASSUME NEW c \in Curves, NEW j \in Points, NEW i \in 1 .. j
  PROVE  i \in Points /\ c[i][1] <= c[j][1] /\ c[i][2] <= c[j][2]
<1> DEFINE S == {k \in Points : \A h \in 1 .. k : c[h][1] <= c[k][1] /\ c[h][2] <= c[k][2]}
<1>1. \A h \in Points : c[h][1] \in Int /\ c[h][2] \in Int
  BY CurveIs
<1>2. 1 \in S
  BY <1>1, Scales
<1>3. \A k \in Points \ {POINT_COUNT} : k \in S => k + 1 \in S
  <2> SUFFICES ASSUME NEW k \in Points \ {POINT_COUNT}, k \in S PROVE k + 1 \in S
    OBVIOUS
  <2>1. k + 1 \in Points /\ k + 1 \in 2 .. POINT_COUNT /\ (k + 1) - 1 = k
    BY Scales
  <2>2. c[k+1][1] >= c[k][1] /\ c[k+1][2] >= c[k][2]
    BY <2>1 DEF Curves, Valid
  <2>3. ASSUME NEW h \in 1 .. k + 1 PROVE c[h][1] <= c[k+1][1] /\ c[h][2] <= c[k+1][2]
    <3>1. h \in Points /\ (h = k + 1 \/ h \in 1 .. k)
      BY Scales
    <3>2. CASE h = k + 1
      BY <1>1, <2>1, <3>2
    <3>3. CASE h \in 1 .. k
      <4>1. c[h][1] <= c[k][1] /\ c[h][2] <= c[k][2]
        BY <3>3
      <4> QED BY <1>1, <2>1, <2>2, <3>1, <4>1
    <3> QED BY <3>1, <3>2, <3>3
  <2> QED BY <2>1, <2>3
<1>4. S = Points
  <2>1. S \in SUBSET Points
    OBVIOUS
  <2> HIDE DEF S
  <2> QED BY <1>2, <1>3, <2>1, PointsUp
<1> QED BY <1>4, Scales

(* The segment that a temperature lies in.                                 *)
Slope(c, i, t) ==
  c[i-1][2] + Rounded((t - c[i-1][1] * 1000) * (c[i][2] - c[i-1][2]), c[i][1] * 1000 - c[i-1][1] * 1000)

LEMMA LeastOfSet ==
  ASSUME NEW S \in SUBSET Nat, S # {}
  PROVE  Min(S) \in S /\ \A k \in S : Min(S) <= k
BY LeastNatural DEF Min

(* duty_at is that of the first point, of the last, or on the slope of one *)
(* segment.                                                                *)
LEMMA SegmentOf ==
  ASSUME NEW c \in Curves, NEW t \in Int
  PROVE  \/ t <= c[1][1] * 1000 /\ DutyAt(c, t) = c[1][2]
         \/ /\ t > c[1][1] * 1000 /\ t >= c[POINT_COUNT][1] * 1000 /\ DutyAt(c, t) = c[POINT_COUNT][2]
         \/ \E i \in 2 .. POINT_COUNT :
              /\ c[i-1][1] * 1000 < t /\ t <= c[i][1] * 1000 /\ t < c[POINT_COUNT][1] * 1000
              /\ DutyAt(c, t) = Slope(c, i, t)
<1> DEFINE at(i) == c[i][1] * 1000
           S == {k \in 2 .. POINT_COUNT : t <= at(k)}
           i == Min(S)
<1>1. DutyAt(c, t) = IF t <= at(1) THEN c[1][2]
                     ELSE IF t >= at(POINT_COUNT) THEN c[POINT_COUNT][2]
                     ELSE IF at(i) = at(i-1) THEN c[i][2] ELSE Slope(c, i, t)
  BY DEF DutyAt, Slope
<1>2. \A k \in Points : c[k][1] \in 0 .. 120 /\ at(k) \in Nat
  BY CurveIs
<1>3. CASE t <= at(1)
  BY <1>1, <1>3
<1>4. CASE t > at(1) /\ t >= at(POINT_COUNT)
  <2>1. ~(t <= at(1))
    BY <1>2, <1>4, Scales
  <2> QED BY <1>1, <1>4, <2>1
<1>5. CASE t > at(1) /\ t < at(POINT_COUNT)
  <2>1. POINT_COUNT \in S /\ S \in SUBSET Nat
    BY <1>2, <1>5, Scales
  <2>2. i \in S /\ \A k \in S : i <= k
    <3> HIDE DEF S
    <3> QED BY <2>1, LeastOfSet
  <2>3. i \in 2 .. POINT_COUNT /\ t <= at(i)
    BY <2>2
  <2> HIDE DEF i
  <2>4. at(i-1) < t
    <3>1. CASE i = 2
      BY <1>5, <3>1
    <3>2. CASE i # 2
      <4>1. i - 1 \in 2 .. POINT_COUNT /\ i - 1 \in Points /\ ~(i <= i - 1)
        BY <2>3, <3>2, Scales
      <4>2. ~(t <= at(i-1))
        BY <2>2, <4>1
      <4> QED BY <1>2, <4>1, <4>2
    <3> QED BY <3>1, <3>2
  <2>5. i \in Points /\ i - 1 \in Points
    BY <2>3, Scales
  <2>6. ~(t <= at(1)) /\ ~(t >= at(POINT_COUNT)) /\ at(i) # at(i-1)
    BY <1>2, <1>5, <2>3, <2>4, <2>5, Scales
  <2>7. DutyAt(c, t) = Slope(c, i, t)
    BY <1>1, <2>6 DEF i
  <2> QED BY <1>5, <2>3, <2>4, <2>7
<1>6. t \in Int /\ at(1) \in Int /\ at(POINT_COUNT) \in Int
  BY <1>2, Scales
<1> QED BY <1>3, <1>4, <1>5, <1>6

LEMMA EndsAre ==
  ASSUME NEW c \in Curves, NEW i \in 2 .. POINT_COUNT
  PROVE  /\ c[i-1][1] \in Int /\ c[i][1] \in Int /\ c[i-1][1] >= 0 /\ c[i-1][2] \in Int
         /\ c[i][2] \in Int /\ c[i-1][2] <= c[i][2]
<1> DEFINE h == i - 1
<1>1. i \in Points /\ h \in Points /\ h \in 1 .. i
  BY Scales
<1> HIDE DEF h
<1>2. c[h][1] \in 0 .. 120 /\ c[h][2] \in 0 .. 255 /\ c[i][1] \in 0 .. 120 /\ c[i][2] \in 0 .. 255
  BY <1>1, CurveIs
<1>3. c[h][2] <= c[i][2]
  BY <1>1, CurveRises
<1>4. /\ c[h][1] \in Int /\ c[i][1] \in Int /\ c[h][1] >= 0 /\ c[h][2] \in Int
      /\ c[i][2] \in Int /\ c[h][2] <= c[i][2]
  <2> DEFINE a == c[h][1]
             b == c[h][2]
             u == c[i][1]
             v == c[i][2]
  <2>1. a \in 0 .. 120 /\ b \in 0 .. 255 /\ u \in 0 .. 120 /\ v \in 0 .. 255
    BY <1>2
  <2> HIDE DEF a, b, u, v
  <2>2. a \in Int /\ u \in Int /\ a >= 0 /\ b \in Int /\ v \in Int
    BY <2>1
  <2> QED BY <1>3, <2>2 DEF a, b, u, v
<1> QED BY <1>4 DEF h

(* A slope stays between the duties of its ends, reaches that of the upper *)
(* one, and rises.                                                         *)
LEMMA SlopeIs ==
  ASSUME NEW c \in Curves, NEW i \in 2 .. POINT_COUNT, NEW t \in Int,
         c[i-1][1] * 1000 < t, t <= c[i][1] * 1000
  PROVE  /\ Slope(c, i, t) \in Int /\ c[i-1][2] <= Slope(c, i, t) /\ Slope(c, i, t) <= c[i][2]
         /\ t = c[i][1] * 1000 => Slope(c, i, t) = c[i][2]
         /\ \A u \in Int : t <= u /\ u <= c[i][1] * 1000 => Slope(c, i, t) <= Slope(c, i, u)
<1> DEFINE a == c[i-1][1] * 1000
           b == c[i][1] * 1000
           d == b - a
           y == c[i][2] - c[i-1][2]
<1>1. i \in Int /\ i \in Points /\ i - 1 \in Points /\ i - 1 \in 1 .. i
  BY Scales
<1>2. /\ c[i-1][1] \in Int /\ c[i][1] \in Int /\ c[i-1][1] >= 0 /\ c[i-1][2] \in Int
      /\ c[i][2] \in Int /\ c[i-1][2] <= c[i][2]
  BY EndsAre
<1>3. a \in Nat /\ b \in Nat /\ d \in Nat \ {0} /\ y \in Nat /\ t - a \in 0 .. d /\ a < t /\ t <= b
  BY <1>2
<1>4. \A u \in Int : Slope(c, i, u) = c[i-1][2] + Rounded((u - a) * y, d)
  BY DEF Slope
<1> HIDE DEF a, b, d, y
<1>5. ASSUME NEW m \in Nat, NEW n \in Nat, m <= n
      PROVE  m * y \in Nat /\ n * y \in Nat /\ Rounded(m * y, d) <= Rounded(n * y, d)
  <2>1. y * m <= y * n /\ m * y = y * m /\ n * y = y * n
    BY <1>3, <1>5, TimesMono
  <2>2. m * y \in Nat /\ n * y \in Nat
    BY <1>3, SMT
  <2> DEFINE p == m * y
             q == n * y
  <2>3. p \in Nat /\ q \in Nat /\ p <= q
    BY <2>1, <2>2
  <2> HIDE DEF p, q
  <2>4. Rounded(p, d) <= Rounded(q, d)
    BY <1>3, <2>3, RoundedMono
  <2> QED BY <2>2, <2>4 DEF p, q
<1>6. Rounded(d * y, d) = y
  BY <1>3, RoundedOf
<1>7. Rounded(0 * y, d) = 0
  <2>1. d * 0 = 0 /\ 0 * y = 0
    BY <1>3
  <2>2. Rounded(d * 0, d) = 0
    BY <1>3, RoundedOf
  <2> QED BY <2>1, <2>2
<1>8. /\ Rounded((t - a) * y, d) \in Int
      /\ Rounded(0 * y, d) <= Rounded((t - a) * y, d)
      /\ Rounded((t - a) * y, d) <= Rounded(d * y, d)
  <2> DEFINE n == t - a
  <2>1. n \in Nat /\ 0 <= n /\ n <= d /\ d \in Nat
    BY <1>3
  <2> HIDE DEF n
  <2>2. n * y \in Nat /\ Rounded(0 * y, d) <= Rounded(n * y, d) /\ Rounded(n * y, d) <= Rounded(d * y, d)
    BY <1>5, <2>1
  <2>3. n * y \in Int
    BY <2>2
  <2>4. Rounded(n * y, d) \in Int
    BY <1>3, <2>3, RoundedIs
  <2> QED BY <2>2, <2>4 DEF n
<1>9. Slope(c, i, t) \in Int /\ c[i-1][2] <= Slope(c, i, t) /\ Slope(c, i, t) <= c[i][2]
  BY <1>2, <1>4, <1>6, <1>7, <1>8 DEF y
<1>10. t = b => Slope(c, i, t) = c[i][2]
  <2> SUFFICES ASSUME t = b PROVE Slope(c, i, t) = c[i][2]
    OBVIOUS
  <2>1. t - a = d
    BY DEF d
  <2>2. Slope(c, i, t) = c[i-1][2] + y
    BY <1>4, <1>6, <2>1
  <2> QED BY <1>2, <2>2 DEF y
<1>11. ASSUME NEW u \in Int, t <= u, u <= b PROVE Slope(c, i, t) <= Slope(c, i, u)
  <2> DEFINE n == t - a
             m == u - a
  <2>1. n \in Nat /\ m \in Nat /\ n <= m
    BY <1>3, <1>11
  <2>2. Slope(c, i, t) = c[i-1][2] + Rounded(n * y, d) /\ Slope(c, i, u) = c[i-1][2] + Rounded(m * y, d)
    BY <1>4
  <2> HIDE DEF n, m
  <2>3. n * y \in Int /\ m * y \in Int /\ Rounded(n * y, d) <= Rounded(m * y, d)
    BY <1>5, <2>1
  <2>4. Rounded(n * y, d) \in Int /\ Rounded(m * y, d) \in Int
    BY <1>3, <2>3, RoundedIs
  <2> QED BY <1>2, <2>2, <2>3, <2>4
<1> QED BY <1>9, <1>10, <1>11 DEF b

(* duty_at is between the duties of the curve, and rises with the heat.    *)
LEMMA DutyAtIs ==
  ASSUME NEW c \in Curves, NEW t \in Int
  PROVE  DutyAt(c, t) \in 0 .. 255 /\ c[1][2] <= DutyAt(c, t) /\ DutyAt(c, t) <= c[POINT_COUNT][2]
<1>1. 1 \in Points /\ POINT_COUNT \in Points /\ 1 \in 1 .. POINT_COUNT
  BY Scales
<1>2. c[1][2] \in 0 .. 255 /\ c[POINT_COUNT][2] \in 0 .. 255 /\ c[1][2] <= c[POINT_COUNT][2]
  BY <1>1, CurveIs, CurveRises
<1>3. ASSUME NEW i \in 2 .. POINT_COUNT,
             c[i-1][1] * 1000 < t, t <= c[i][1] * 1000, DutyAt(c, t) = Slope(c, i, t)
      PROVE  DutyAt(c, t) \in 0 .. 255 /\ c[1][2] <= DutyAt(c, t) /\ DutyAt(c, t) <= c[POINT_COUNT][2]
  <2>1. i \in Int /\ i \in Points /\ i - 1 \in Points /\ 1 \in 1 .. i - 1 /\ i \in 1 .. POINT_COUNT
    BY Scales
  <2>2. c[1][2] <= c[i-1][2] /\ c[i][2] <= c[POINT_COUNT][2]
    BY <1>1, <2>1, CurveRises
  <2>3. Slope(c, i, t) \in Int /\ c[i-1][2] <= Slope(c, i, t) /\ Slope(c, i, t) <= c[i][2]
    BY <1>3, SlopeIs
  <2>4. c[i-1][2] \in Int /\ c[i][2] \in Int
    BY EndsAre
  <2>5. DutyAt(c, t) \in Int /\ c[i-1][2] <= DutyAt(c, t) /\ DutyAt(c, t) <= c[i][2]
    BY <1>3, <2>3
  <2> DEFINE p == c[i-1][2]
             q == c[i][2]
             v == DutyAt(c, t)
             low == c[1][2]
             high == c[POINT_COUNT][2]
  <2>6. p \in Int /\ q \in Int /\ v \in Int /\ p <= v /\ v <= q /\ low <= p /\ q <= high
    BY <2>2, <2>4, <2>5
  <2>7. low \in 0 .. 255 /\ high \in 0 .. 255
    BY <1>2
  <2> HIDE DEF p, q, v, low, high
  <2>8. v \in 0 .. 255 /\ low <= v /\ v <= high
    BY <2>6, <2>7
  <2> QED BY <2>8 DEF v, low, high
<1>4. ASSUME DutyAt(c, t) = c[1][2] \/ DutyAt(c, t) = c[POINT_COUNT][2]
      PROVE  DutyAt(c, t) \in 0 .. 255 /\ c[1][2] <= DutyAt(c, t) /\ DutyAt(c, t) <= c[POINT_COUNT][2]
  <2> DEFINE v == DutyAt(c, t)
             low == c[1][2]
             high == c[POINT_COUNT][2]
  <2>1. low \in 0 .. 255 /\ high \in 0 .. 255 /\ low <= high /\ (v = low \/ v = high)
    BY <1>2, <1>4
  <2> HIDE DEF v, low, high
  <2>2. v \in 0 .. 255 /\ low <= v /\ v <= high
    BY <2>1
  <2> QED BY <2>2 DEF v, low, high
<1>5. \/ DutyAt(c, t) = c[1][2] \/ DutyAt(c, t) = c[POINT_COUNT][2]
      \/ \E i \in 2 .. POINT_COUNT :
           c[i-1][1] * 1000 < t /\ t <= c[i][1] * 1000 /\ DutyAt(c, t) = Slope(c, i, t)
  BY SegmentOf
<1> QED BY <1>3, <1>4, <1>5

(* A hotter APU never gets a lower duty, within a segment or across        *)
(* points.                                                                 *)
LEMMA DutyAtRises ==
  ASSUME NEW c \in Curves, NEW t \in Int, NEW u \in Int, t <= u
  PROVE  DutyAt(c, t) <= DutyAt(c, u)
<1>1. /\ DutyAt(c, t) \in 0 .. 255 /\ c[1][2] <= DutyAt(c, t) /\ DutyAt(c, t) <= c[POINT_COUNT][2]
      /\ DutyAt(c, u) \in 0 .. 255 /\ c[1][2] <= DutyAt(c, u) /\ DutyAt(c, u) <= c[POINT_COUNT][2]
  BY DutyAtIs
<1>2. \A k \in Points : c[k][1] \in 0 .. 120 /\ c[k][2] \in 0 .. 255
  BY CurveIs
<1>3. 1 \in Points /\ POINT_COUNT \in Points
  BY Scales
<1>4. CASE t <= c[1][1] * 1000 /\ DutyAt(c, t) = c[1][2]
  BY <1>1, <1>4
<1>5. CASE u >= c[POINT_COUNT][1] * 1000 /\ DutyAt(c, u) = c[POINT_COUNT][2]
  BY <1>1, <1>5
<1>6. CASE t >= c[POINT_COUNT][1] * 1000 /\ t > c[1][1] * 1000 /\ DutyAt(c, t) = c[POINT_COUNT][2]
  <2>1. ~(u < c[POINT_COUNT][1] * 1000) /\ ~(u <= c[1][1] * 1000)
    BY <1>2, <1>3, <1>6
  <2>2. DutyAt(c, u) = c[POINT_COUNT][2]
    BY <2>1, SegmentOf
  <2> QED BY <1>1, <1>6, <2>2
<1>7. CASE u <= c[1][1] * 1000 /\ DutyAt(c, u) = c[1][2]
  <2>1. t <= c[1][1] * 1000
    BY <1>2, <1>3, <1>7
  <2>2. \A i \in 2 .. POINT_COUNT : ~(c[i-1][1] * 1000 < t)
    <3> SUFFICES ASSUME NEW i \in 2 .. POINT_COUNT PROVE ~(c[i-1][1] * 1000 < t)
      OBVIOUS
    <3>1. i - 1 \in Points /\ 1 \in 1 .. i - 1
      BY Scales
    <3>2. c[1][1] <= c[i-1][1]
      BY <3>1, CurveRises
    <3>3. c[i-1][1] \in Int /\ c[1][1] \in Int
      BY <1>2, <1>3, <3>1
    <3> QED BY <2>1, <3>2, <3>3
  <2>3. ~(t > c[1][1] * 1000)
    BY <1>2, <1>3, <2>1
  <2>4. DutyAt(c, t) = c[1][2]
    BY <2>2, <2>3, SegmentOf
  <2> QED BY <1>1, <1>7, <2>4
<1>8. ASSUME NEW i \in 2 .. POINT_COUNT, NEW j \in 2 .. POINT_COUNT,
             c[i-1][1] * 1000 < t, t <= c[i][1] * 1000, DutyAt(c, t) = Slope(c, i, t),
             c[j-1][1] * 1000 < u, u <= c[j][1] * 1000, DutyAt(c, u) = Slope(c, j, u)
      PROVE  DutyAt(c, t) <= DutyAt(c, u)
  <2>1. /\ i \in Points /\ i - 1 \in Points /\ j \in Points /\ j - 1 \in Points
        /\ i \in Int /\ j \in Int
    BY Scales
  <2>2. /\ c[i-1][1] \in Int /\ c[i][1] \in Int /\ c[j-1][1] \in Int /\ c[j][1] \in Int
        /\ c[i-1][2] \in Int /\ c[i][2] \in Int /\ c[j-1][2] \in Int /\ c[j][2] \in Int
    BY EndsAre
  <2>3. CASE i = j
    BY <1>8, <2>3, SlopeIs
  <2>4. CASE i < j
    <3>1. i \in 1 .. j - 1
      BY <2>1, <2>4
    <3>2. c[i][2] <= c[j-1][2]
      BY <2>1, <3>1, CurveRises
    <3>3. Slope(c, i, t) \in Int /\ Slope(c, i, t) <= c[i][2]
      BY <1>8, SlopeIs
    <3>4. Slope(c, j, u) \in Int /\ c[j-1][2] <= Slope(c, j, u)
      BY <1>8, SlopeIs
    <3> QED BY <1>8, <2>2, <3>2, <3>3, <3>4
  <2>5. CASE j < i
    <3>1. j \in 1 .. i - 1
      BY <2>1, <2>5
    <3>2. c[j][1] <= c[i-1][1]
      BY <2>1, <3>1, CurveRises
    <3> QED BY <1>8, <2>2, <3>2
  <2> QED BY <2>1, <2>3, <2>4, <2>5
<1>9. \/ t <= c[1][1] * 1000 /\ DutyAt(c, t) = c[1][2]
      \/ /\ t > c[1][1] * 1000 /\ t >= c[POINT_COUNT][1] * 1000 /\ DutyAt(c, t) = c[POINT_COUNT][2]
      \/ \E i \in 2 .. POINT_COUNT :
           c[i-1][1] * 1000 < t /\ t <= c[i][1] * 1000 /\ DutyAt(c, t) = Slope(c, i, t)
  BY SegmentOf
<1>10. \/ u <= c[1][1] * 1000 /\ DutyAt(c, u) = c[1][2]
       \/ u >= c[POINT_COUNT][1] * 1000 /\ DutyAt(c, u) = c[POINT_COUNT][2]
       \/ \E i \in 2 .. POINT_COUNT :
            c[i-1][1] * 1000 < u /\ u <= c[i][1] * 1000 /\ DutyAt(c, u) = Slope(c, i, u)
  BY SegmentOf
<1> QED BY <1>4, <1>5, <1>6, <1>7, <1>8, <1>9, <1>10

----------------------------------------------------------------------------
(* Part 2. What the editor and the protection make of a curve.             *)

(* shift_curve_vertical moves every duty by as much, within the chart.     *)
LEMMA ClampMono ==
  ASSUME NEW v \in Int, NEW w \in Int, NEW low \in Int, NEW high \in Int, low <= high, v <= w
  PROVE  Clamp(v, low, high) <= Clamp(w, low, high)
<1>1. ASSUME NEW u \in Int
      PROVE  Clamp(u, low, high) = IF u <= low THEN low ELSE IF u <= high THEN u ELSE high
  <2> DEFINE m == Min({u, high})
  <2>1. m = (IF u <= high THEN u ELSE high)
    BY MinOfTwo
  <2> HIDE DEF m
  <2>2. Max({low, m}) = IF low >= m THEN low ELSE m
    BY <2>1, MaxOfTwo
  <2> QED BY <2>1, <2>2 DEF Clamp, m
<1>2. Clamp(v, low, high) = IF v <= low THEN low ELSE IF v <= high THEN v ELSE high
  BY <1>1
<1>3. Clamp(w, low, high) = IF w <= low THEN low ELSE IF w <= high THEN w ELSE high
  BY <1>1
<1> QED BY <1>2, <1>3

LEMMA ShiftedIsSound ==
  ASSUME NEW c \in Curves, NEW delta \in Int
  PROVE  ShiftCurveVertical(c, delta) \in Curves
<1> DEFINE s == ShiftCurveVertical(c, delta)
           moved(i) == Clamp(c[i][2] + delta, PWM_MIN, PWM_MAX)
<1>1. s = [i \in Points |-> <<c[i][1], moved(i)>>]
  BY DEF ShiftCurveVertical
<1>2. PWM_MIN = 0 /\ PWM_MAX = 255 /\ PWM_MIN \in Int /\ PWM_MAX \in Int /\ PWM_MIN <= PWM_MAX
  BY Scales
<1>3. \A i \in Points : c[i][1] \in 0 .. 120 /\ c[i][2] \in Int
  BY CurveIs
<1>4. \A i \in Points : moved(i) \in 0 .. 255
  <2> SUFFICES ASSUME NEW i \in Points PROVE moved(i) \in 0 .. 255
    OBVIOUS
  <2> DEFINE d == c[i][2] + delta
  <2>1. d \in Int
    BY <1>3
  <2> HIDE DEF d
  <2>2. Clamp(d, PWM_MIN, PWM_MAX) \in PWM_MIN .. PWM_MAX
    <3>1. PWM_MIN \in Int /\ PWM_MAX \in Int /\ PWM_MIN <= PWM_MAX
      BY <1>2
    <3> QED BY <2>1, <3>1, ClampIs
  <2> QED BY <1>2, <2>2 DEF d
<1>5. \A i \in 2 .. POINT_COUNT : c[i][1] >= c[i-1][1] /\ moved(i) >= moved(i-1)
  <2> SUFFICES ASSUME NEW i \in 2 .. POINT_COUNT PROVE c[i][1] >= c[i-1][1] /\ moved(i) >= moved(i-1)
    OBVIOUS
  <2> DEFINE h == i - 1
             d == c[h][2] + delta
             e == c[i][2] + delta
  <2>1. i \in Points /\ h \in Points /\ h \in 1 .. i
    BY Scales
  <2> HIDE DEF h
  <2>2. c[h][1] <= c[i][1] /\ c[h][2] <= c[i][2]
    BY <2>1, CurveRises
  <2>3. c[h][1] \in Int /\ c[i][1] \in Int
    <3>1. c[h][1] \in 0 .. 120 /\ c[i][1] \in 0 .. 120
      BY <1>3, <2>1
    <3> QED BY <3>1
  <2>4. d \in Int /\ e \in Int /\ d <= e
    BY <1>3, <2>1, <2>2
  <2> HIDE DEF d, e
  <2>5. Clamp(d, PWM_MIN, PWM_MAX) <= Clamp(e, PWM_MIN, PWM_MAX)
    BY <1>2, <2>4, ClampMono
  <2>6. moved(h) \in 0 .. 255 /\ moved(i) \in 0 .. 255
    BY <1>4, <2>1
  <2>7. moved(i) >= moved(h)
    BY <2>5, <2>6 DEF d, e
  <2> QED BY <2>2, <2>3, <2>7 DEF h
<1> HIDE DEF moved
<1>6. s \in [Points -> Pairs]
  <2>1. ASSUME NEW i \in Points PROVE <<c[i][1], moved(i)>> \in Pairs
    <3> DEFINE a == c[i][1]
               b == moved(i)
    <3>1. a \in 0 .. 120
      BY <1>3
    <3>2. b \in 0 .. 255
      BY <1>4
    <3> HIDE DEF a, b
    <3>3. a \in Int /\ b \in Int
      BY <3>1, <3>2
    <3>4. <<a, b>> \in Pairs
      BY <3>3 DEF Pairs
    <3> QED BY <3>4 DEF a, b
  <2> QED BY <1>1, <2>1
<1>7. \A i \in Points : s[i][1] = c[i][1] /\ s[i][2] = moved(i)
  BY <1>1
<1>8. \A i \in 2 .. POINT_COUNT : i \in Points /\ i - 1 \in Points
  BY Scales
<1> HIDE DEF s
<1>9. \A i \in Points : s[i][1] \in 0..120 /\ s[i][2] \in 0..255
  BY <1>3, <1>4, <1>7
<1>10. ASSUME NEW i \in 2 .. POINT_COUNT
       PROVE  s[i][1] >= s[i-1][1] /\ s[i][2] >= s[i-1][2]
  <2> DEFINE h == i - 1
  <2>1. i \in Points /\ h \in Points
    BY <1>8
  <2>2. c[i][1] >= c[h][1] /\ moved(i) >= moved(h)
    BY <1>5
  <2> HIDE DEF h
  <2>3. s[i][1] >= s[h][1] /\ s[i][2] >= s[h][2]
    BY <1>7, <2>1, <2>2
  <2> QED BY <2>3 DEF h
<1>11. Valid(s)
  BY <1>9, <1>10 DEF Valid
<1> QED BY <1>6, <1>11 DEF Curves, s

(* high_power_curve: a curve again, at the lock's duty from 80 degrees and *)
(* at full speed from 90.                                                  *)
LEMMA LockedIsSound ==
  ASSUME NEW c \in Curves
  PROVE  /\ HighPowerCurve(c) \in Curves
         /\ HighPowerCurve(c)[POINT_COUNT] = <<90, 255>>
         /\ HighPowerCurve(c)[7][1] = 80
         /\ \A i \in 1 .. 7 : HighPowerCurve(c)[i][1] = 80 => HighPowerCurve(c)[i][2] >= 204
<1> DEFINE lock == Max({c[POINT_COUNT-1][2], c[POINT_COUNT-2][2], HIGH_POWER_POINT_PWM})
           pulled(p, next) ==
             LET temp == Min({p[1], next[1]})
             IN <<temp, IF temp = HIGH_POWER_POINT_TEMP_C THEN lock ELSE Min({p[2], next[2]})>>
           body(f) == [i \in Points |->
             IF i = POINT_COUNT THEN <<HIGH_POWER_FINAL_TEMP_C, PWM_MAX>>
             ELSE IF i = POINT_COUNT - 1 THEN <<HIGH_POWER_POINT_TEMP_C, lock>>
             ELSE pulled(c[i], f[i+1])]
           locked == CHOOSE f : f = body(f)
<1>1. HighPowerCurve(c) = [i \in Points |-> locked[i]]
  BY DEF HighPowerCurve
<1> HIDE DEF locked
<1>2. lock \in 204 .. 255
  <2>1. POINT_COUNT - 1 \in Points /\ POINT_COUNT - 2 \in Points /\ HIGH_POWER_POINT_PWM = 204
    BY Scales
  <2> DEFINE p == c[POINT_COUNT-1][2]
             q == c[POINT_COUNT-2][2]
  <2>2. p \in 0 .. 255 /\ q \in 0 .. 255
    <3> DEFINE h == POINT_COUNT - 1
               k == POINT_COUNT - 2
    <3> HIDE DEF h, k
    <3>1. c[h][2] \in 0 .. 255 /\ c[k][2] \in 0 .. 255
      <4>1. h \in Points /\ k \in Points
        BY <2>1 DEF h, k
      <4> QED BY <4>1, CurveIs
    <3> QED BY <3>1 DEF h, k
  <2> HIDE DEF p, q
  <2>3. \E m \in {p, q, 204} : \A k \in {p, q, 204} : k <= m
    BY <2>2
  <2>4. lock \in {p, q, 204} /\ \A k \in {p, q, 204} : k <= lock
    <3>1. lock = CHOOSE m \in {p, q, 204} : \A k \in {p, q, 204} : m >= k
      BY <2>1 DEF Max, p, q
    <3>2. \E m \in {p, q, 204} : \A k \in {p, q, 204} : m >= k
      BY <2>2
    <3> DEFINE z == CHOOSE m \in {p, q, 204} : \A k \in {p, q, 204} : m >= k
    <3>3. z \in {p, q, 204} /\ \A k \in {p, q, 204} : z >= k
      BY <3>2
    <3> HIDE DEF lock, z
    <3>4. lock \in {p, q, 204} /\ \A k \in {p, q, 204} : lock >= k
      BY <3>1, <3>3 DEF z
    <3>5. p \in Int /\ q \in Int
      BY <2>2
    <3> QED BY <3>4, <3>5
  <2> HIDE DEF lock
  <2> QED BY <2>2, <2>4
<1>3. lock \in Int
  BY <1>2
<1> HIDE DEF lock
<1>4. ASSUME NEW p \in Pairs, NEW q \in Pairs
      PROVE  /\ pulled(p, q) \in Pairs
             /\ pulled(p, q)[1] = (IF p[1] <= q[1] THEN p[1] ELSE q[1])
             /\ pulled(p, q)[2] = (IF pulled(p, q)[1] = 80 THEN lock
                                   ELSE IF p[2] <= q[2] THEN p[2] ELSE q[2])
  <2>1. p[1] \in Int /\ p[2] \in Int /\ q[1] \in Int /\ q[2] \in Int
    BY DEF Pairs
  <2>2. Min({p[1], q[1]}) = (IF p[1] <= q[1] THEN p[1] ELSE q[1])
    BY <2>1, MinOfTwo
  <2>3. Min({p[2], q[2]}) = (IF p[2] <= q[2] THEN p[2] ELSE q[2])
    BY <2>1, MinOfTwo
  <2> QED BY <1>3, <2>1, <2>2, <2>3, Scales DEF Pairs
<1> HIDE DEF pulled
<1>5. \A i \in Points : c[i] \in Pairs /\ c[i][1] \in 0 .. 120 /\ c[i][2] \in 0 .. 255
  BY CurveIs DEF Curves
<1> DEFINE Fits(p) == p \in Pairs /\ p[1] \in 0 .. 120 /\ p[2] \in 0 .. 255
<1>fits. \A i \in Points : Fits(c[i])
  BY <1>5
<1> HIDE DEF Fits
<1>6. \A i \in Points : locked[i] = IF i = 8 THEN <<90, 255>> ELSE IF i = 7 THEN <<80, lock>>
                                     ELSE pulled(c[i], locked[i+1])
  <2> DEFINE g == [q \in Points \X Pairs |-> IF q[1] = 7 THEN <<80, lock>> ELSE pulled(c[q[1]], q[2])]
             v == <<90, 255>>
  <2>1. v \in Pairs /\ <<80, lock>> \in Pairs
    BY <1>3 DEF Pairs
  <2>2. \A i \in Points, p \in Pairs : pulled(c[i], p) \in Pairs
    BY <1>4, <1>5
  <2>3. g \in [Points \X Pairs -> Pairs]
    BY <2>1, <2>2
  <2>4. \A i \in Points, p \in Pairs : g[<<i, p>>] = IF i = 7 THEN <<80, lock>> ELSE pulled(c[i], p)
    OBVIOUS
  <2> HIDE DEF g
  <2>5. PICK f \in [Points -> Pairs] : ChainsDown(f, v, g)
    BY <2>1, <2>3, ChainDown
  <2>6. f = body(f)
    <3>1. ASSUME NEW i \in Points PROVE f[i] = body(f)[i]
      <4>1. CASE i = POINT_COUNT
        BY <2>5, <4>1, Scales DEF ChainsDown
      <4>2. CASE i # POINT_COUNT
        <5>1. i \in Points \ {POINT_COUNT} /\ i + 1 \in Points /\ POINT_COUNT - 1 = 7
          BY <4>2, Scales
        <5>2. f[i] = g[<<i, f[i+1]>>] /\ f[i+1] \in Pairs
          BY <2>5, <5>1 DEF ChainsDown
        <5>3. f[i] = IF i = 7 THEN <<80, lock>> ELSE pulled(c[i], f[i+1])
          BY <2>4, <5>2
        <5> QED BY <4>2, <5>1, <5>3, Scales
      <4> QED BY <4>1, <4>2
    <3> QED BY <3>1
  <2>7. locked = CHOOSE h : h = body(h)
    BY DEF locked
  <2> HIDE DEF body
  <2>8. locked = body(locked)
    BY <2>6, <2>7
  <2> QED BY <2>8, Scales DEF body
<1> DEFINE Good(i) == /\ locked[i] \in Pairs /\ locked[i][1] \in 0 .. 80 /\ locked[i][2] \in 0 .. lock
                      /\ locked[i][1] = 80 => locked[i][2] = lock
<1>7. \A i \in 1 .. 7 : Good(i)
  <2> DEFINE S == {i \in Points : i # 8 => Good(i)}
  <2>1. POINT_COUNT \in S
    BY Scales
  <2>2. ASSUME NEW i \in Points \ {POINT_COUNT}, i + 1 \in S PROVE i \in S
    <3>1. i \in Points /\ i + 1 \in Points /\ i # 8
      BY Scales
    <3>2. CASE i = 7
      <4>1. locked[i] = <<80, lock>>
        BY <1>6, <3>1, <3>2
      <4> QED BY <1>2, <1>3, <3>1, <4>1 DEF Pairs
    <3>3. CASE i # 7
      <4> DEFINE p == c[i]
                 q == locked[i+1]
                 r == locked[i]
      <4>1. Good(i + 1) /\ r = pulled(p, q)
        BY <1>6, <2>2, <3>1, <3>3, Scales
      <4>2. /\ q \in Pairs /\ q[1] \in 0 .. 80 /\ q[2] \in 0 .. lock
            /\ p \in Pairs /\ p[1] \in 0 .. 120 /\ p[2] \in 0 .. 255
        <5>1. Fits(p)
          <6>1. i \in Points
            BY <3>1
          <6> QED BY <1>fits, <6>1
        <5>2. q \in Pairs /\ q[1] \in 0 .. 80 /\ q[2] \in 0 .. lock
          BY <4>1
        <5> HIDE DEF p, q
        <5> QED BY <5>1, <5>2 DEF Fits
      <4> HIDE DEF p, q
      <4>3. /\ r \in Pairs /\ r[1] = (IF p[1] <= q[1] THEN p[1] ELSE q[1])
            /\ r[2] = (IF r[1] = 80 THEN lock ELSE IF p[2] <= q[2] THEN p[2] ELSE q[2])
        <5>1. r = pulled(p, q)
          BY <4>1
        <5> HIDE DEF r
        <5> QED BY <1>4, <4>2, <5>1
      <4> HIDE DEF r
      <4>4. r[1] \in 0 .. 80 /\ r[2] \in 0 .. lock /\ (r[1] = 80 => r[2] = lock)
        <5> DEFINE a == p[1]
                   b == p[2]
                   u == q[1]
                   v == q[2]
                   x == r[1]
                   y == r[2]
        <5>1. a \in 0 .. 120 /\ b \in 0 .. 255 /\ u \in 0 .. 80 /\ v \in 0 .. lock
          BY <4>2
        <5>2. x = (IF a <= u THEN a ELSE u) /\ y = (IF x = 80 THEN lock ELSE IF b <= v THEN b ELSE v)
          BY <4>3
        <5> HIDE DEF a, b, u, v, x, y
        <5>3. x \in 0 .. 80
          BY <5>1, <5>2
        <5>4. y \in 0 .. lock /\ (x = 80 => y = lock)
          BY <1>2, <5>1, <5>2
        <5> QED BY <5>3, <5>4 DEF x, y
      <4> QED BY <3>1, <4>3, <4>4 DEF r
    <3> QED BY <3>2, <3>3
  <2>3. S = Points
    <3>1. S \in SUBSET Points
      OBVIOUS
    <3> HIDE DEF S
    <3> QED BY <2>1, <2>2, <3>1, PointsDown
  <2> QED BY <2>3, Scales
<1>8. \A i \in 1 .. 7 : /\ locked[i] \in Pairs /\ locked[i][1] \in 0 .. 120 /\ locked[i][2] \in 0 .. 255
                        /\ locked[i][1] = 80 => locked[i][2] >= 204
  <2> SUFFICES ASSUME NEW i \in 1 .. 7
               PROVE  /\ locked[i] \in Pairs /\ locked[i][1] \in 0 .. 120 /\ locked[i][2] \in 0 .. 255
                      /\ locked[i][1] = 80 => locked[i][2] >= 204
    OBVIOUS
  <2> DEFINE r == locked[i]
  <2>1. r \in Pairs /\ r[1] \in 0 .. 80 /\ r[2] \in 0 .. lock /\ (r[1] = 80 => r[2] = lock)
    BY <1>7
  <2> HIDE DEF r
  <2>2. r[1] \in 0 .. 120 /\ r[2] \in 0 .. 255 /\ (r[1] = 80 => r[2] >= 204)
    BY <1>2, <2>1
  <2> QED BY <2>1, <2>2 DEF r
<1> DEFINE Locks(r) == r[1] = 80 => r[2] >= 204
<1>locks. \A i \in 1 .. 7 : Fits(locked[i]) /\ Locks(locked[i])
  BY <1>8 DEF Fits
<1> HIDE DEF Locks
<1>9. locked[8] = <<90, 255>> /\ locked[8] \in Pairs /\ locked[7] = <<80, lock>>
  BY <1>6, Scales DEF Pairs
<1>10. ASSUME NEW i \in 1 .. 7
       PROVE  locked[i+1][1] >= locked[i][1] /\ locked[i+1][2] >= locked[i][2]
  <2>1. CASE i = 7
    BY <1>2, <1>9, <2>1
  <2>2. CASE i # 7
    <3> DEFINE p == c[i]
               q == locked[i+1]
               r == locked[i]
    <3>1. Good(i + 1) /\ Good(i) /\ r = pulled(p, q) /\ i \in Points
      <4>1. i \in Points /\ i + 1 \in 1 .. 7 /\ i # 8
        BY <2>2, Scales
      <4> QED BY <1>6, <1>7, <2>2, <4>1
    <3>2. /\ q \in Pairs /\ q[1] \in 0 .. 80 /\ q[2] \in 0 .. lock /\ (q[1] = 80 => q[2] = lock)
          /\ p \in Pairs /\ p[1] \in 0 .. 120 /\ p[2] \in 0 .. 255
          /\ r[1] \in 0 .. 80 /\ r[2] \in 0 .. lock
      <4>1. /\ q \in Pairs /\ q[1] \in 0 .. 80 /\ q[2] \in 0 .. lock /\ (q[1] = 80 => q[2] = lock)
            /\ r[1] \in 0 .. 80 /\ r[2] \in 0 .. lock
        BY <3>1
      <4>2. Fits(p)
        <5>1. i \in Points
          BY <3>1
        <5> QED BY <1>fits, <5>1
      <4>3. p \in Pairs /\ p[1] \in 0 .. 120 /\ p[2] \in 0 .. 255
        <5> HIDE DEF p
        <5> QED BY <4>2 DEF Fits
      <4> QED BY <4>1, <4>3
    <3> HIDE DEF p, q
    <3>3. /\ r[1] = (IF p[1] <= q[1] THEN p[1] ELSE q[1])
          /\ r[2] = (IF r[1] = 80 THEN lock ELSE IF p[2] <= q[2] THEN p[2] ELSE q[2])
      BY <1>4, <3>1, <3>2
    <3> HIDE DEF r
    <3>4. q[1] >= r[1] /\ q[2] >= r[2]
      BY <1>2, <3>2, <3>3
    <3> QED BY <3>4 DEF q, r
  <2> QED BY <2>1, <2>2
<1> HIDE DEF Good
<1> DEFINE e == [i \in Points |-> locked[i]]
<1>11. /\ \A i \in 1 .. 8 : e[i] = locked[i] /\ locked[i] \in Pairs
       /\ e \in [Points -> Pairs]
  <2>1. \A i \in 1 .. 8 : i = 8 \/ i \in 1 .. 7
    OBVIOUS
  <2>2. \A i \in 1 .. 8 : locked[i] \in Pairs
    BY <1>8, <1>9, <2>1
  <2>3. Points = 1 .. 8
    BY Scales
  <2> QED BY <2>2, <2>3
<1>12. HighPowerCurve(c) = e
  BY <1>1
<1> HIDE DEF e
<1>13. \A i \in Points : e[i][1] \in 0..120 /\ e[i][2] \in 0..255
  <2>1. \A i \in Points : i = 8 \/ i \in 1 .. 7
    BY Scales
  <2> SUFFICES ASSUME NEW i \in Points PROVE e[i][1] \in 0 .. 120 /\ e[i][2] \in 0 .. 255
    OBVIOUS
  <2>2. e[i] = locked[i]
    BY <1>11, Scales
  <2>3. CASE i = 8
    BY <1>9, <2>2, <2>3
  <2>4. CASE i \in 1 .. 7
    <3> DEFINE r == locked[i]
    <3>1. Fits(r)
      BY <1>locks, <2>4
    <3> HIDE DEF r
    <3>2. r[1] \in 0 .. 120 /\ r[2] \in 0 .. 255
      BY <3>1 DEF Fits
    <3> QED BY <2>2, <3>2 DEF r
  <2> QED BY <2>1, <2>3, <2>4
<1>14. ASSUME NEW i \in 2 .. POINT_COUNT
       PROVE  e[i][1] >= e[i-1][1] /\ e[i][2] >= e[i-1][2]
  <2> DEFINE h == i - 1
  <2>1. h \in 1 .. 7 /\ i \in 1 .. 8 /\ h \in 1 .. 8 /\ h + 1 = i
    BY Scales
  <2> HIDE DEF h
  <2>2. locked[i][1] >= locked[h][1] /\ locked[i][2] >= locked[h][2]
    BY <1>10, <2>1
  <2>3. e[i][1] >= e[h][1] /\ e[i][2] >= e[h][2]
    BY <1>11, <2>1, <2>2
  <2> QED BY <2>3 DEF h
<1>15. e \in Curves
  BY <1>11, <1>13, <1>14 DEF Curves, Valid
<1>16. e[8] = <<90, 255>> /\ e[7][1] = 80 /\ \A i \in 1 .. 7 : e[i][1] = 80 => e[i][2] >= 204
  <2>1. e[8] = <<90, 255>> /\ e[7] = <<80, lock>>
    BY <1>9, <1>11
  <2>2. ASSUME NEW i \in 1 .. 7, e[i][1] = 80 PROVE e[i][2] >= 204
    <3>1. e[i] = locked[i]
      <4>1. i \in 1 .. 8
        OBVIOUS
      <4> QED BY <1>11, <4>1
    <3>2. Locks(e[i])
      BY <1>locks, <3>1
    <3> QED BY <2>2, <3>2 DEF Locks
  <2> QED BY <2>1, <2>2
<1> QED BY <1>12, <1>15, <1>16, Scales

(* The editor only makes curves.                                           *)
LEMMA PercentIs == \A percent \in Int : PercentToPwm(percent) \in Int
<1> SUFFICES ASSUME NEW percent \in Int PROVE PercentToPwm(percent) \in Int
  OBVIOUS
<1> DEFINE p == Clamp(percent, 0, 100)
<1>1. p \in Int
  BY ClampIs
<1> HIDE DEF p
<1>2. (p * 255) \div 100 \in Int
  BY <1>1
<1> QED BY <1>2 DEF PercentToPwm, p

LEMMA EditorMakesCurves ==
  ASSUME authored \in [Fans -> Curves], EditCurve
  PROVE  authored' \in [Fans -> Curves]
<1>1. PICK place \in EditPoints :
        \/ \E temp \in EditTemps, pwm \in EditDuties : DragPoint(place[1], place[2], temp, pwm)
        \/ \E pwm \in EditDuties : DragAll(place[1], place[2], pwm)
        \/ \E step \in KeySteps : AdjustPoint(place[1], place[2], step[1], step[2])
  BY DEF EditCurve
<1> DEFINE fan == place[1]
           index == place[2]
           c == authored[fan]
<1>2. /\ fan \in Fans /\ index \in Points
      /\ EditTemps \subseteq Int /\ EditDuties \subseteq Int
  BY FanControlAssumption
<1>3. c \in Curves /\ c \in [Points -> Pairs]
  BY <1>2 DEF Curves
<1> HIDE DEF fan, index
<1>4. ASSUME NEW new \in Curves, authored' = [authored EXCEPT ![fan] = new]
      PROVE  authored' \in [Fans -> Curves]
  BY <1>2, <1>4
<1> HIDE DEF c
<1>5. \A p \in Pairs : EnforceCurve([c EXCEPT ![index] = p], index) \in Curves
  <2> SUFFICES ASSUME NEW p \in Pairs
               PROVE  EnforceCurve([c EXCEPT ![index] = p], index) \in Curves
    OBVIOUS
  <2> DEFINE d == [c EXCEPT ![index] = p]
  <2>1. d \in [Points -> Pairs]
    BY <1>3
  <2> HIDE DEF d
  <2>2. EnforceCurve(d, index) \in [Points -> Pairs] /\ Valid(EnforceCurve(d, index))
    BY <1>2, <2>1, EnforcedIsSound
  <2> QED BY <2>2 DEF Curves, d
<1>6. c[index][1] \in Int /\ c[index][2] \in Int
  <2>1. c[index] \in Pairs
    BY <1>2, <1>3
  <2> QED BY <2>1 DEF Pairs
<1>7. ASSUME NEW temp \in EditTemps, NEW pwm \in EditDuties, DragPoint(fan, index, temp, pwm)
      PROVE  authored' \in [Fans -> Curves]
  <2>1. <<temp, pwm>> \in Pairs
    BY <1>2 DEF Pairs
  <2>2. authored' = [authored EXCEPT ![fan] = EnforceCurve([c EXCEPT ![index] = <<temp, pwm>>], index)]
    BY <1>7 DEF DragPoint, Edit, c
  <2> QED BY <1>4, <1>5, <2>1, <2>2
<1>8. ASSUME NEW pwm \in EditDuties, DragAll(fan, index, pwm)
      PROVE  authored' \in [Fans -> Curves]
  <2>1. pwm - c[index][2] \in Int
    BY <1>2, <1>6
  <2>2. authored' = [authored EXCEPT ![fan] = ShiftCurveVertical(c, pwm - c[index][2])]
    BY <1>8 DEF DragAll, Edit, c
  <2>3. ShiftCurveVertical(c, pwm - c[index][2]) \in Curves
    BY <1>3, <2>1, ShiftedIsSound
  <2> QED BY <1>4, <2>2, <2>3
<1>9. ASSUME NEW keys \in KeySteps, AdjustPoint(fan, index, keys[1], keys[2])
      PROVE  authored' \in [Fans -> Curves]
  <2>1. keys[1] \in Int /\ keys[2] \in Int
    BY DEF KeySteps
  <2> DEFINE percent == keys[2]
             q == c[index]
             step == IF percent >= 0 THEN PercentToPwm(percent) ELSE -PercentToPwm(-percent)
             moved == Clamped(<<q[1] + keys[1], q[2] + step>>)
  <2>2. step \in Int
    <3>1. percent \in Int /\ -percent \in Int
      BY <2>1
    <3>2. PercentToPwm(percent) \in Int /\ PercentToPwm(-percent) \in Int
      BY <3>1, PercentIs
    <3> QED BY <3>2
  <2>3. authored' = [authored EXCEPT ![fan] = EnforceCurve([c EXCEPT ![index] = moved], index)]
    BY <1>9 DEF AdjustPoint, Edit, c
  <2> HIDE DEF step
  <2>4. <<q[1] + keys[1], q[2] + step>> \in Pairs
    BY <1>6, <2>1, <2>2 DEF Pairs
  <2>5. moved \in Pairs
    <3> DEFINE r == <<q[1] + keys[1], q[2] + step>>
    <3>1. r \in Pairs
      BY <2>4
    <3> HIDE DEF r
    <3>2. Clamped(r) \in Pairs
      BY <3>1, ClampedInPairs
    <3> QED BY <3>2 DEF r
  <2> HIDE DEF moved
  <2> QED BY <1>4, <1>5, <2>3, <2>5
<1> QED BY <1>1, <1>7, <1>8, <1>9 DEF fan, index

(* duty_at of a locked curve: never below 80 % from 80 degrees on, full    *)
(* speed from 90.                                                          *)
LEMMA LockedAnswers ==
  ASSUME NEW c \in Curves, NEW t \in Int, t >= 80000
  PROVE  /\ DutyAt(HighPowerCurve(c), t) >= 204
         /\ t >= 90000 => DutyAt(HighPowerCurve(c), t) = 255
<1> DEFINE e == HighPowerCurve(c)
<1>1. /\ e \in Curves /\ e[8] = <<90, 255>> /\ e[7][1] = 80
      /\ \A i \in 1 .. 7 : e[i][1] = 80 => e[i][2] >= 204
  BY LockedIsSound, Scales
<1> HIDE DEF e
<1>2. \A i \in 1 .. 7 : e[i][1] \in 0 .. 80
  <2> SUFFICES ASSUME NEW i \in 1 .. 7 PROVE e[i][1] \in 0 .. 80
    OBVIOUS
  <2>1. 7 \in Points /\ i \in Points /\ i \in 1 .. 7
    BY Scales
  <2>2. e[i][1] <= e[7][1] /\ e[i][1] \in 0 .. 120
    BY <1>1, <2>1, CurveRises, CurveIs
  <2> QED BY <1>1, <2>2
<1>3. e[1][1] \in 0 .. 80 /\ e[8][1] = 90 /\ e[8][2] = 255
  BY <1>1, <1>2
<1>4. ASSUME NEW u \in Int, u >= 90000 PROVE DutyAt(e, u) = 255
  <2>1. ~(u <= e[1][1] * 1000) /\ ~(u < e[8][1] * 1000)
    BY <1>3, <1>4
  <2> QED BY <1>1, <1>3, <2>1, SegmentOf, Scales
<1>5. DutyAt(e, 80000) >= 204
  <2> DEFINE u == 80000
  <2>1. u \in Int
    OBVIOUS
  <2>2. ASSUME u <= e[1][1] * 1000, DutyAt(e, u) = e[1][2] PROVE DutyAt(e, u) >= 204
    <3>1. e[1][1] = 80
      BY <1>3, <2>2
    <3> QED BY <1>1, <2>2, <3>1
  <2>3. ~(u >= e[8][1] * 1000)
    BY <1>3
  <2>4. ASSUME NEW i \in 2 .. 8, e[i-1][1] * 1000 < u, u <= e[i][1] * 1000, DutyAt(e, u) = Slope(e, i, u)
        PROVE  DutyAt(e, u) >= 204
    <3>1. i # 8
      <4> SUFFICES ASSUME i = 8 PROVE FALSE
        OBVIOUS
      <4>1. i - 1 = 7
        OBVIOUS
      <4> QED BY <1>1, <2>4, <4>1
    <3>2. i \in 1 .. 7
      BY <3>1
    <3>3. e[i][1] = 80
      <4> DEFINE d == e[i][1]
      <4>1. d \in 0 .. 80 /\ 80000 <= d * 1000
        BY <1>2, <2>4, <3>2
      <4> HIDE DEF d
      <4>2. d = 80
        BY <4>1
      <4> QED BY <4>2 DEF d
    <3>4. e[i][2] >= 204 /\ u = e[i][1] * 1000
      BY <1>1, <3>2, <3>3
    <3>5. i \in 2 .. POINT_COUNT
      BY Scales
    <3> HIDE DEF u
    <3>6. Slope(e, i, u) = e[i][2]
      BY <1>1, <2>1, <2>4, <3>4, <3>5, SlopeIs
    <3> QED BY <2>4, <3>4, <3>6
  <2> HIDE DEF u
  <2>5. \/ u <= e[1][1] * 1000 /\ DutyAt(e, u) = e[1][2]
        \/ u >= e[8][1] * 1000
        \/ \E i \in 2 .. 8 : e[i-1][1] * 1000 < u /\ u <= e[i][1] * 1000 /\ DutyAt(e, u) = Slope(e, i, u)
    BY <1>1, <2>1, SegmentOf, Scales
  <2>6. DutyAt(e, u) >= 204
    BY <2>2, <2>3, <2>4, <2>5
  <2> QED BY <2>6 DEF u
<1>6. DutyAt(e, t) >= 204
  <2>1. DutyAt(e, 80000) <= DutyAt(e, t)
    BY <1>1, DutyAtRises
  <2>2. DutyAt(e, 80000) \in 0 .. 255 /\ DutyAt(e, t) \in 0 .. 255
    BY <1>1, DutyAtIs
  <2> QED BY <1>5, <2>1, <2>2
<1> QED BY <1>4, <1>6 DEF e

(* Every curve is sound, and so is its high-power copy.                    *)
LEMMA CurvesAreSound ==
  ASSUME NEW c \in Curves
  PROVE  CurveIsSound(c)
<1> DEFINE locked == HighPowerCurve(c)
<1>1. locked \in Curves
  BY LockedIsSound
<1>2. Valid(c) /\ Valid(locked)
  BY <1>1 DEF Curves
<1>3. \A temp \in 80..120 : DutyAt(locked, temp * 1000)
                              >= IF temp < 90 THEN HIGH_POWER_POINT_PWM ELSE PWM_MAX
  <2> SUFFICES ASSUME NEW temp \in 80 .. 120
               PROVE  DutyAt(locked, temp * 1000) >= IF temp < 90 THEN HIGH_POWER_POINT_PWM ELSE PWM_MAX
    OBVIOUS
  <2> DEFINE t == temp * 1000
  <2>1. t \in Int /\ t >= 80000 /\ (temp >= 90 => t >= 90000)
    OBVIOUS
  <2> HIDE DEF t
  <2>2. DutyAt(locked, t) >= 204 /\ (t >= 90000 => DutyAt(locked, t) = 255)
    BY <2>1, LockedAnswers
  <2>3. DutyAt(locked, t) >= IF temp < 90 THEN HIGH_POWER_POINT_PWM ELSE PWM_MAX
    BY <2>1, <2>2, Scales
  <2> QED BY <2>3 DEF t
<1>4. \A temp \in 20..110 : DutyAt(c, temp * 1000) <= DutyAt(c, temp * 1000 + 500)
  <2> SUFFICES ASSUME NEW temp \in 20 .. 110
               PROVE  DutyAt(c, temp * 1000) <= DutyAt(c, temp * 1000 + 500)
    OBVIOUS
  <2> DEFINE t == temp * 1000
             u == temp * 1000 + 500
  <2>1. t \in Int /\ u \in Int /\ t <= u
    OBVIOUS
  <2> HIDE DEF t, u
  <2>2. DutyAt(c, t) <= DutyAt(c, u)
    BY <2>1, DutyAtRises
  <2> QED BY <2>2 DEF t, u
<1> QED BY <1>2, <1>3, <1>4 DEF CurveIsSound

----------------------------------------------------------------------------
(* Part 2. A reading, the window and its mean, the deadband, the ramp.     *)

(* Sums over a window: the recursion has a solution, and a lower bound of  *)
(* the samples is one of the mean.                                         *)
Samples == [age : Nat, value : Int]
Sums(f, w, n) == f[0] = 0 /\ \A i \in 1 .. n : f[i] = f[i-1] + w[i].value

(* The running sums of a window exist for every length of it.              *)
LEMMA SumsExist ==
  ASSUME NEW w \in Seq(Samples), NEW n \in 0 .. Len(w)
  PROVE  \E f \in [0 .. n -> Int] : Sums(f, w, n)
<1> DEFINE S == {k \in Nat : k <= Len(w) /\ ~ \E f \in [0 .. k -> Int] : Sums(f, w, k)}
<1>1. Len(w) \in Nat /\ n \in Nat /\ n <= Len(w)
  OBVIOUS
<1>2. SUFFICES ASSUME S # {} PROVE FALSE
  BY <1>1
<1>3. PICK k \in S : \A m \in S : k <= m
  <2>1. S \in SUBSET Nat
    OBVIOUS
  <2> HIDE DEF S
  <2> QED BY <1>2, <2>1, LeastNatural
<1>4. k \in Nat /\ k <= Len(w) /\ ~ \E f \in [0 .. k -> Int] : Sums(f, w, k)
  BY <1>3
<1>5. CASE k = 0
  <2> DEFINE f == [i \in 0 .. 0 |-> 0]
  <2>1. f \in [0 .. 0 -> Int] /\ f[0] = 0 /\ 1 .. 0 = {}
    OBVIOUS
  <2>2. Sums(f, w, 0)
    BY <2>1 DEF Sums
  <2> QED BY <1>4, <1>5, <2>1, <2>2
<1>6. CASE k # 0
  <2>1. k - 1 \in Nat /\ k - 1 <= Len(w) /\ ~(k <= k - 1) /\ k \in 1 .. Len(w)
    BY <1>1, <1>4, <1>6
  <2>2. k - 1 \notin S
    BY <1>3, <2>1
  <2>3. PICK f \in [0 .. k - 1 -> Int] : Sums(f, w, k - 1)
    BY <2>1, <2>2
  <2>4. w[k] \in Samples /\ w[k].value \in Int
    <3>1. w[k] \in Samples
      BY <2>1
    <3> QED BY <3>1 DEF Samples
  <2>5. f[k-1] \in Int
    BY <2>1, <2>3
  <2> DEFINE z == f[k-1] + w[k].value
             g == [i \in 0 .. k |-> IF i = k THEN z ELSE f[i]]
  <2>6. z \in Int
    BY <2>4, <2>5
  <2>7. \A i \in 0 .. k : i # k => i \in 0 .. k - 1
    BY <1>4
  <2>8. g \in [0 .. k -> Int]
    <3> HIDE DEF z
    <3> QED BY <2>3, <2>6, <2>7
  <2>9. Sums(g, w, k)
    <3>1. g[0] = 0
      BY <1>4, <1>6, <2>3 DEF Sums
    <3>2. ASSUME NEW i \in 1 .. k PROVE g[i] = g[i-1] + w[i].value
      <4>1. CASE i = k
        <5>1. g[k-1] = f[k-1] /\ g[k] = z
          BY <1>4, <2>1
        <5> QED BY <4>1, <5>1
      <4>2. CASE i # k
        <5>1. i \in 1 .. k - 1 /\ i \in 0 .. k /\ i - 1 \in 0 .. k /\ i - 1 # k
          BY <1>4, <4>2
        <5>2. f[i] = f[i-1] + w[i].value
          BY <2>3, <5>1 DEF Sums
        <5> QED BY <4>2, <5>1, <5>2
      <4> QED BY <4>1, <4>2
    <3> QED BY <3>1, <3>2 DEF Sums
  <2> QED BY <1>4, <2>8, <2>9
<1> QED BY <1>5, <1>6

(* The sum is a number, and no less than the least sample times their      *)
(* count.                                                                  *)
LEMMA TotalIs ==
  ASSUME NEW w \in Seq(Samples), NEW low \in Nat, NEW bounded \in BOOLEAN,
         bounded => \A i \in 1 .. Len(w) : w[i].value >= low
  PROVE  Total(w) \in Int /\ (bounded => Total(w) >= Len(w) * low)
<1> DEFINE n == Len(w)
           sum[i \in 0..Len(w)] == IF i = 0 THEN 0 ELSE sum[i-1] + w[i].value
           body(f) == [i \in 0..Len(w) |-> IF i = 0 THEN 0 ELSE f[i-1] + w[i].value]
<1>1. n \in Nat
  OBVIOUS
<1>2. PICK f \in [0 .. n -> Int] : Sums(f, w, n)
  <2>1. n \in 0 .. Len(w)
    BY <1>1
  <2> HIDE DEF n
  <2> QED BY <2>1, SumsExist
<1>3. f = body(f)
  <2>1. ASSUME NEW i \in 0 .. n PROVE f[i] = body(f)[i]
    <3>1. CASE i = 0
      BY <1>2, <3>1 DEF Sums
    <3>2. CASE i # 0
      <4>1. i \in 1 .. n
        BY <1>1, <3>2
      <4> QED BY <1>2, <3>2, <4>1 DEF Sums
    <3> QED BY <3>1, <3>2
  <2> QED BY <1>2, <2>1
<1>4. sum = CHOOSE h : h = body(h)
  OBVIOUS
<1>5. Total(w) = sum[n]
  BY DEF Total
<1> HIDE DEF sum
<1>6. sum = body(sum)
  <2> HIDE DEF body
  <2> QED BY <1>3, <1>4
<1>7. sum[0] = 0 /\ \A i \in 1 .. n : sum[i] = sum[i-1] + w[i].value
  <2>1. \A i \in 0 .. n : sum[i] = IF i = 0 THEN 0 ELSE sum[i-1] + w[i].value
    BY <1>6
  <2>2. 0 \in 0 .. n /\ \A i \in 1 .. n : i \in 0 .. n /\ i # 0
    BY <1>1
  <2> QED BY <2>1, <2>2
<1>8. \A i \in 1 .. n : w[i].value \in Int /\ (bounded => w[i].value >= low)
  <2> SUFFICES ASSUME NEW i \in 1 .. n PROVE w[i].value \in Int
    OBVIOUS
  <2>1. w[i] \in Samples
    OBVIOUS
  <2> QED BY <2>1 DEF Samples
<1> HIDE DEF body, n
<1> DEFINE Good(k) == sum[k] \in Int /\ (bounded => sum[k] >= k * low)
           S == {k \in Nat : k <= n /\ ~Good(k)}
<1>9. S = {}
  <2> SUFFICES ASSUME S # {} PROVE FALSE
    OBVIOUS
  <2>1. PICK k \in S : \A m \in S : k <= m
    <3>1. S \in SUBSET Nat
      OBVIOUS
    <3> HIDE DEF S
    <3> QED BY <3>1, LeastNatural
  <2>2. k \in Nat /\ k <= n /\ ~Good(k)
    BY <2>1
  <2>3. k # 0
    <3>1. Good(0)
      BY <1>7
    <3> QED BY <2>2, <3>1
  <2>4. k - 1 \in Nat /\ k - 1 <= n /\ ~(k <= k - 1) /\ k \in 1 .. n
    BY <1>1, <2>2, <2>3
  <2>5. Good(k - 1)
    <3> HIDE DEF Good
    <3> QED BY <2>1, <2>4
  <2>6. sum[k] = sum[k-1] + w[k].value /\ w[k].value \in Int /\ (bounded => w[k].value >= low)
    BY <1>7, <1>8, <2>4
  <2>7. k * low = (k - 1) * low + low /\ (k - 1) * low \in Int
    BY <2>2
  <2> DEFINE x == (k - 1) * low
             y == k * low
             s == sum[k-1]
             t == sum[k]
             v == w[k].value
  <2>8. t = s + v /\ v \in Int /\ (bounded => v >= low) /\ s \in Int /\ (bounded => s >= x)
        /\ y = x + low /\ x \in Int
    BY <2>5, <2>6, <2>7
  <2> HIDE DEF x, y, s, t, v
  <2>9. t \in Int /\ (bounded => t >= y)
    BY <2>8
  <2> QED BY <2>2, <2>9 DEF t, y
<1>10. Good(n)
  <2> HIDE DEF Good
  <2> QED BY <1>1, <1>9
<1> QED BY <1>5, <1>10 DEF n

(* The mean is a number, and no less than the least sample.                *)
LEMMA MeanIs ==
  ASSUME NEW w \in Seq(Samples), NEW millic \in Int
  PROVE  Mean(w, millic) \in Int
<1>1. CASE w = <<>>
  BY <1>1 DEF Mean
<1>2. CASE w # <<>>
  <2> DEFINE n == Len(w)
             s == Total(w)
  <2>1. Mean(w, millic) = Rounded(s, n)
    BY <1>2 DEF Mean
  <2>2. n \in Nat \ {0} /\ s \in Int
    <3>1. n \in Nat \ {0}
      BY <1>2
    <3>2. s \in Int
      BY TotalIs
    <3> QED BY <3>1, <3>2
  <2> HIDE DEF n, s
  <2>3. Rounded(s, n) \in Int
    BY <2>2, RoundedIs
  <2> QED BY <2>1, <2>3
<1> QED BY <1>1, <1>2

LEMMA MeanIsHot ==
  ASSUME NEW w \in Seq(Samples), NEW millic \in Int, NEW low \in Nat,
         millic >= low, \A i \in 1 .. Len(w) : w[i].value >= low
  PROVE  Mean(w, millic) >= low
<1>1. CASE w = <<>>
  BY <1>1 DEF Mean
<1>2. CASE w # <<>>
  <2> DEFINE n == Len(w)
             s == Total(w)
             p == n * low
  <2>1. Mean(w, millic) = Rounded(s, n)
    BY <1>2 DEF Mean
  <2>2. n \in Nat \ {0} /\ s \in Int /\ s >= p
    <3>1. n \in Nat \ {0}
      BY <1>2
    <3>2. s \in Int
      BY TotalIs
    <3>3. s >= n * low
      BY TotalIs
    <3> QED BY <3>1, <3>2, <3>3
  <2> HIDE DEF n, s
  <2>3. p \in Nat /\ Rounded(p, n) = low
    BY <2>2, RoundedOf
  <2> HIDE DEF p
  <2>4. s \in Nat /\ p <= s
    BY <2>2, <2>3
  <2>5. Rounded(p, n) <= Rounded(s, n) /\ Rounded(s, n) \in Int
    BY <2>2, <2>3, <2>4, RoundedMono, RoundedIs
  <2> QED BY <2>1, <2>3, <2>5
<1> QED BY <1>1, <1>2

(* The window: the samples still inside it, the oldest of them first, each *)
(* the new reading or an older one that has aged.                          *)
Oldest1st(w) == \A i, j \in 1 .. Len(w) : i <= j => w[j].age <= w[i].age

LEMMA SampledIs ==
  ASSUME NEW older \in Seq(Samples), NEW gap \in Nat, NEW millic \in Int, NEW seconds \in Nat,
         Oldest1st(older), NEW w, w = Sampled(older, gap, millic, seconds)
  PROVE  /\ w \in Seq(Samples) /\ Oldest1st(w)
         /\ \A i \in 1 .. Len(w) :
              /\ w[i].age < Window(seconds)
              /\ \/ w[i].value = millic
                 \/ \E j \in 1 .. Len(older) :
                      w[i].age = older[j].age + gap /\ w[i].value = older[j].value
<1> DEFINE n == Len(older)
           grown == [i \in DOMAIN older |-> [older[i] EXCEPT !.age = @ + gap]]
           last == [age |-> 0, value |-> millic]
           aged == Append(grown, last)
           fresh == {i \in DOMAIN aged : aged[i].age < Window(seconds)}
           first == Min(fresh)
<1>1. w = IF seconds = 0 THEN <<>> ELSE SubSeq(aged, first, Len(aged))
  BY DEF Sampled
<1>2. n \in Nat /\ DOMAIN older = 1 .. n
  OBVIOUS
<1>3. \A i \in 1 .. n : older[i] \in Samples /\ older[i].age \in Nat /\ older[i].value \in Int
  <2> SUFFICES ASSUME NEW i \in 1 .. n
               PROVE  older[i] \in Samples /\ older[i].age \in Nat /\ older[i].value \in Int
    OBVIOUS
  <2>1. older[i] \in Samples
    OBVIOUS
  <2> QED BY <2>1 DEF Samples
<1>4. \A i \in 1 .. n : /\ grown[i] \in Samples
                        /\ grown[i].age = older[i].age + gap /\ grown[i].value = older[i].value
  BY <1>2, <1>3 DEF Samples
<1>5. grown \in Seq(Samples) /\ Len(grown) = n
  <2>1. grown \in [1 .. n -> Samples]
    BY <1>2, <1>4
  <2> HIDE DEF grown, n
  <2> QED BY <1>2, <2>1, SeqDef, LenProperties
<1>6. last \in Samples /\ last.age = 0 /\ last.value = millic
  BY DEF Samples
<1> HIDE DEF grown, last
<1>7. /\ aged \in Seq(Samples) /\ Len(aged) = n + 1 /\ aged[n + 1] = last
      /\ \A i \in 1 .. n : aged[i] = grown[i]
  BY <1>5, <1>6
<1> HIDE DEF aged, n
<1>8. \A i \in 1 .. n + 1 : i = n + 1 \/ i \in 1 .. n
  BY <1>2
<1>9. \A i \in 1 .. n + 1 : aged[i] \in Samples /\ aged[i].age \in Nat
  <2>1. \A i \in 1 .. n : aged[i] \in Samples /\ aged[i].age \in Nat
    <3> SUFFICES ASSUME NEW i \in 1 .. n PROVE aged[i] \in Samples /\ aged[i].age \in Nat
      OBVIOUS
    <3>1. aged[i] = grown[i] /\ grown[i] \in Samples /\ grown[i].age = older[i].age + gap
      BY <1>4, <1>7
    <3>2. older[i].age + gap \in Nat
      BY <1>3
    <3> QED BY <3>1, <3>2
  <2> QED BY <1>6, <1>7, <1>8, <2>1
<1>10. Oldest1st(aged)
  <2> SUFFICES ASSUME NEW i \in 1 .. n + 1, NEW j \in 1 .. n + 1, i <= j
               PROVE  aged[j].age <= aged[i].age
    BY <1>7 DEF Oldest1st
  <2>1. CASE j = n + 1
    BY <1>6, <1>7, <1>9, <2>1
  <2>2. CASE j # n + 1
    <3>1. i \in 1 .. n /\ j \in 1 .. n
      BY <1>2, <2>2
    <3>2. older[j].age <= older[i].age
      BY <3>1 DEF Oldest1st, n
    <3>3. older[j].age \in Nat /\ older[i].age \in Nat
      BY <1>3, <3>1
    <3>4. aged[j].age = older[j].age + gap /\ aged[i].age = older[i].age + gap
      BY <1>4, <1>7, <3>1
    <3> QED BY <3>2, <3>3, <3>4
  <2> QED BY <2>1, <2>2
<1>11. \A i \in 1 .. n + 1 :
         \/ aged[i].value = millic
         \/ \E j \in 1 .. n : aged[i].age = older[j].age + gap /\ aged[i].value = older[j].value
  <2>1. \A i \in 1 .. n : aged[i].age = older[i].age + gap /\ aged[i].value = older[i].value
    BY <1>4, <1>7
  <2> QED BY <1>6, <1>7, <1>8, <2>1
<1>12. CASE seconds = 0
  <2>1. w = <<>>
    BY <1>1, <1>12
  <2>2. w \in Seq(Samples) /\ Len(w) = 0 /\ 1 .. 0 = {}
    BY <2>1
  <2> QED BY <2>2 DEF Oldest1st
<1>13. CASE seconds # 0
  <2>1. Window(seconds) \in Nat /\ Window(seconds) > 0
    BY <1>13 DEF Window
  <2>2. DOMAIN aged = 1 .. n + 1
    BY <1>7
  <2>3. fresh \in SUBSET Nat /\ n + 1 \in fresh
    BY <1>2, <1>6, <1>7, <2>1, <2>2
  <2>4. first \in fresh
    <3> HIDE DEF fresh
    <3> QED BY <2>3, LeastOfSet
  <2>5. first \in 1 .. n + 1 /\ aged[first].age < Window(seconds)
    BY <2>2, <2>4
  <2>6. w = SubSeq(aged, first, n + 1)
    BY <1>1, <1>7, <1>13
  <2> HIDE DEF first
  <2> DEFINE m == n + 2 - first
  <2>7. /\ w \in Seq(Samples) /\ Len(w) = m
        /\ \A i \in 1 .. m : w[i] = aged[first + i - 1]
    BY <1>2, <1>7, <2>5, <2>6, SubSeqProperties
  <2>8. \A i \in 1 .. m : first + i - 1 \in 1 .. n + 1 /\ first <= first + i - 1
    BY <1>2, <2>5
  <2>9. \A i, j \in 1 .. m : i <= j => first + i - 1 <= first + j - 1
    BY <1>2, <2>5
  <2> HIDE DEF m
  <2>10. Oldest1st(w)
    <3> SUFFICES ASSUME NEW i \in 1 .. m, NEW j \in 1 .. m, i <= j PROVE w[j].age <= w[i].age
      BY <2>7 DEF Oldest1st
    <3> DEFINE a == first + i - 1
               b == first + j - 1
    <3>1. a \in 1 .. n + 1 /\ b \in 1 .. n + 1 /\ a <= b
      BY <2>8, <2>9
    <3>2. w[i] = aged[a] /\ w[j] = aged[b]
      BY <2>7
    <3> HIDE DEF a, b
    <3> QED BY <1>7, <1>10, <3>1, <3>2 DEF Oldest1st
  <2>11. ASSUME NEW i \in 1 .. m
         PROVE  /\ w[i].age < Window(seconds)
                /\ \/ w[i].value = millic
                   \/ \E j \in 1 .. n : w[i].age = older[j].age + gap /\ w[i].value = older[j].value
    <3> DEFINE a == first + i - 1
    <3>1. a \in 1 .. n + 1 /\ first <= a /\ w[i] = aged[a]
      BY <2>7, <2>8
    <3> HIDE DEF a
    <3>2. aged[a].age <= aged[first].age
      BY <1>7, <1>10, <2>5, <3>1 DEF Oldest1st
    <3>3. aged[a].age < Window(seconds)
      BY <1>9, <2>1, <2>5, <3>1, <3>2
    <3> QED BY <1>11, <3>1, <3>3
  <2> QED BY <2>7, <2>10, <2>11 DEF n
<1> QED BY <1>12, <1>13

(* Whatever the sensors say, a reading is a number.                        *)
LEMMA ReadingIs == \A inputs : ReadTemperature(inputs) \in Int
<1> SUFFICES ASSUME NEW inputs PROVE ReadTemperature(inputs) \in Int
  OBVIOUS
<1> DEFINE labelled == {i \in DOMAIN inputs : inputs[i].label \in {"tctl", "tdie"}}
           read == IF inputs = <<>> THEN NoTemperature
                   ELSE inputs[IF labelled = {} THEN 1 ELSE Max(labelled)].value
<1>1. ReadTemperature(inputs) = IF Credible(read) THEN read ELSE NoTemperature
  BY DEF ReadTemperature
<1> HIDE DEF read
<1>2. Credible(read) => read \in Int
  <2>1. COLDEST_MILLIC \in Int
    BY DEF COLDEST_MILLIC
  <2> QED BY <2>1 DEF Credible
<1>3. NoTemperature \in Int
  BY DEF NoTemperature
<1> QED BY <1>1, <1>2, <1>3

(* The temperature in use is never more than the deadband under a reading. *)
Held == [at : Int, direction : {"none", "rising", "falling"}]

LEMMA HystereticIs ==
  ASSUME NEW millic \in Int, NEW up \in Nat, NEW down \in Nat, NEW state \in Held,
         NEW used, used = HystereticTemperature(millic, up, down, state)
  PROVE  /\ used \in Held
         /\ \A limit \in Int : millic >= (limit + up) * 1000 => used.at >= limit * 1000
<1> DEFINE next == IF millic > state.at THEN "rising" ELSE "falling"
           deadband == 1000 * (IF next = "rising" THEN up ELSE down)
           distance == Max({millic - state.at, state.at - millic})
<1>1. used = IF state.at = NoTemperature THEN [state EXCEPT !.at = millic]
             ELSE IF \/ millic = state.at
                     \/ state.direction \notin {"none", next} /\ distance < deadband THEN state
             ELSE [at |-> millic, direction |-> next]
  BY DEF HystereticTemperature
<1>2. state.at \in Int /\ state.direction \in {"none", "rising", "falling"}
  BY DEF Held
<1>3. /\ distance = (IF millic - state.at >= state.at - millic THEN millic - state.at ELSE state.at - millic)
  BY <1>2, MaxOfTwo
<1> HIDE DEF distance
<1>4. next \in {"rising", "falling"} /\ (next = "rising") = (millic > state.at)
  OBVIOUS
<1>5. deadband = IF millic > state.at THEN 1000 * up ELSE 1000 * down
  BY <1>4
<1> HIDE DEF next, deadband
<1>6. CASE used = state /\ (millic = state.at \/ distance < deadband)
  <2> SUFFICES ASSUME NEW limit \in Int, millic >= (limit + up) * 1000 PROVE state.at >= limit * 1000
    BY <1>6
  <2>1. CASE millic > state.at
    BY <1>2, <1>3, <1>5, <1>6, <2>1
  <2>2. CASE ~(millic > state.at)
    BY <1>2, <2>2
  <2> QED BY <2>1, <2>2
<1>7. CASE used = [state EXCEPT !.at = millic] \/ used = [at |-> millic, direction |-> next]
  <2>1. used.at = millic /\ used \in Held
    BY <1>2, <1>4, <1>7 DEF Held
  <2> QED BY <2>1
<1> QED BY <1>1, <1>6, <1>7

(* A second is enough to ramp to any duty.                                 *)
Climbs(next, current, target, millis) ==
  next >= target \/ 1000 * next >= 1000 * current + 255 * millis

LEMMA RampIs ==
  ASSUME NEW current \in 0 .. 255, NEW target \in 0 .. 255, NEW millis \in Nat,
         NEW next, next = RampDuty(current, target, millis)
  PROVE  next \in 0 .. 255 /\ Climbs(next, current, target, millis)
<1> DEFINE quotient(rate) == (millis * rate + 999) \div 1000
           step(rate) == Min({Max({quotient(rate), 1}), 255})
<1>1. next = IF target > current THEN Min({current + step(RISE_PWM_PER_SECOND), target})
             ELSE Max({current - step(FALL_PWM_PER_SECOND), target})
  BY DEF RampDuty
<1>2. ASSUME NEW rate \in Nat
      PROVE  /\ step(rate) \in 1 .. 255
             /\ step(rate) = 255 \/ 1000 * step(rate) >= millis * rate
  <2> DEFINE m == millis * rate
             q == quotient(rate)
             g == Max({q, 1})
  <2>1. m \in Nat
    BY SMT
  <2>2. q \in Int /\ m + 999 < 1000 * q + 1000
    <3> HIDE DEF m
    <3> DEFINE n == m + 999
    <3>1. n \in Int
      BY <2>1
    <3> HIDE DEF n
    <3>2. n \div 1000 \in Int /\ n < 1000 * (n \div 1000) + 1000
      BY <3>1, Division
    <3> QED BY <3>2 DEF n, m
  <2> HIDE DEF q
  <2>3. g = IF q >= 1 THEN q ELSE 1
    BY <2>2, MaxOfTwo
  <2> HIDE DEF g
  <2>4. g \in Int
    BY <2>2, <2>3
  <2>5. Min({g, 255}) = IF g <= 255 THEN g ELSE 255
    BY <2>4, MinOfTwo
  <2>6. step(rate) = Min({g, 255})
    BY DEF g, q
  <2> HIDE DEF step, m
  <2>7. step(rate) \in 1 .. 255 /\ (step(rate) = 255 \/ 1000 * step(rate) >= m)
    BY <2>1, <2>2, <2>3, <2>4, <2>5, <2>6
  <2> QED BY <2>7 DEF m
<1>3. RISE_PWM_PER_SECOND = 255 /\ FALL_PWM_PER_SECOND = 102
  BY DEF RISE_PWM_PER_SECOND, FALL_PWM_PER_SECOND
<1> HIDE DEF step
<1>4. /\ step(255) \in 1 .. 255 /\ (step(255) = 255 \/ 1000 * step(255) >= millis * 255)
      /\ step(102) \in 1 .. 255
  BY <1>2
<1> DEFINE s == step(255)
           f == step(102)
<1>5. /\ s \in 1 .. 255 /\ (s = 255 \/ 1000 * s >= 255 * millis) /\ f \in 1 .. 255
  BY <1>4
<1>6. next = IF target > current THEN Min({current + s, target}) ELSE Max({current - f, target})
  BY <1>1, <1>3
<1> HIDE DEF s, f
<1>7. Min({current + s, target}) = IF current + s <= target THEN current + s ELSE target
  BY <1>5, MinOfTwo
<1>8. Max({current - f, target}) = IF current - f >= target THEN current - f ELSE target
  BY <1>5, MaxOfTwo
<1>9. CASE target > current
  BY <1>5, <1>6, <1>7, <1>9 DEF Climbs
<1>10. CASE ~(target > current)
  BY <1>5, <1>6, <1>8, <1>10 DEF Climbs
<1> QED BY <1>9, <1>10

----------------------------------------------------------------------------
(* Part 2. The heat, followed to the fan.                                  *)

(* The inductive invariant. While a reading stays over a limit, every      *)
(* sample younger than the heat is over it too; once the heat is older     *)
(* than the window, the mean is over it, and the duty has climbed for the  *)
(* rest of the time.                                                       *)
Limit(l) == (l + tuning.up) * 1000
LockDuty(l) == IF l = 80 THEN 204 ELSE 255

FanTypeOK ==
  /\ authored \in [Fans -> Curves] /\ protected \in BOOLEAN
  /\ tuning \in [up : Nat, down : Nat, seconds : Nat]
  /\ samples \in Seq(Samples) /\ inUse \in Held
  /\ duty \in [Fans -> [value : 0 .. 255, known : BOOLEAN]]
  /\ elapsed \in Nat /\ ecErrors \in 0 .. 2
  /\ hotFor \in [{80, 90} -> Nat]

InstalledCurve ==
  /\ ticks = 0 => curves = <<>>
  /\ curves = <<>> => samples = <<>>
  /\ curves # <<>> => curves = Hardware(protected)

WindowIsHot ==
  /\ Oldest1st(samples)
  /\ \A l \in {80, 90}, i \in 1 .. Len(samples) : samples[i].age < hotFor[l] => samples[i].value >= Limit(l)

DutyIsRising ==
  curves # <<>> /\ protected =>
    \A fan \in Fans, l \in {80, 90} :
      \/ duty[fan].value >= LockDuty(l)
      \/ 1000 * duty[fan].value >= 255 * (hotFor[l] - Window(tuning.seconds) - Behind(fan))

(* Every gap since the fans were last served both has its failure.         *)
FailuresCount == \E gap \in Gaps \cup {0} : elapsed <= ecErrors * gap

FanInv ==
  FanTypeOK /\ ticks \in Nat /\ InstalledCurve /\ WindowIsHot /\ DutyIsRising /\ FailuresCount

(* Without a failure no gap is needed: zero of them is zero.               *)
LEMMA NothingFailed == \E gap \in Gaps \cup {0} : 0 <= 0 * gap
<1>1. 0 \in Gaps \cup {0} /\ 0 <= 0 * 0
  OBVIOUS
<1> QED BY <1>1

(* Nothing is installed and nothing is hot at the start.                   *)
LEMMA FanInvInit == FanControlInit => FanInv
<1> SUFFICES ASSUME FanControlInit PROVE FanInv
  OBVIOUS
<1> USE DEF FanControlInit
<1>1. authored \in [Fans -> Curves]
  BY FanControlAssumption DEF Curves, Pairs
<1>2. tuning \in [up : Nat, down : Nat, seconds : Nat]
  BY FanControlAssumption
<1>3. samples \in Seq(Samples) /\ Len(samples) = 0 /\ 1 .. 0 = {}
  OBVIOUS
<1>4. inUse \in Held
  BY DEF FirstHeld, Held, NoTemperature
<1>5. duty \in [Fans -> [value : 0 .. 255, known : BOOLEAN]]
  BY DEF NoDuty, NoDuties
<1>6. /\ hotFor \in [{80, 90} -> Nat] /\ protected \in BOOLEAN
      /\ elapsed \in Nat /\ ecErrors \in 0 .. 2 /\ ticks \in Nat
  <2>1. hotFor \in [{80, 90} -> Nat]
    OBVIOUS
  <2>2. protected \in BOOLEAN
    OBVIOUS
  <2> QED BY <2>1, <2>2
<1>7. InstalledCurve /\ ~(curves # <<>>)
  BY DEF InstalledCurve
<1>8. FailuresCount
  BY NothingFailed DEF FailuresCount
<1> HIDE DEF FanControlInit
<1>9. FanTypeOK
  BY <1>1, <1>2, <1>3, <1>4, <1>5, <1>6 DEF FanTypeOK
<1>10. WindowIsHot
  BY <1>3 DEF WindowIsHot, Oldest1st
<1> QED BY <1>6, <1>7, <1>8, <1>9, <1>10 DEF FanInv, DutyIsRising

(* Curves are edited while none is installed.                              *)
LEMMA EditKeepsFanInv ==
  ASSUME FanInv, EditCurve
  PROVE  FanInv'
<1>1. authored' \in [Fans -> Curves]
  BY EditorMakesCurves DEF FanInv, FanTypeOK
<1>2. curves = <<>> /\ UNCHANGED controllerVars
  BY DEF EditCurve, DragPoint, DragAll, AdjustPoint, Edit
<1>3. UNCHANGED <<curves, tuning, protected, samples, inUse, duty, elapsed, ecErrors, hotFor, ticks>>
  BY <1>2 DEF controllerVars
<1>4. FanTypeOK'
  BY <1>1, <1>3 DEF FanInv, FanTypeOK
<1>5. InstalledCurve'
  BY <1>2, <1>3 DEF FanInv, InstalledCurve
<1>6. WindowIsHot' /\ DutyIsRising' /\ FailuresCount'
  BY <1>2, <1>3 DEF FanInv, WindowIsHot, DutyIsRising, FailuresCount, Oldest1st, Limit
<1> QED BY <1>3, <1>4, <1>5, <1>6 DEF FanInv

(* A release leaves no curve and no samples behind.                        *)
LEMMA ReleaseKeepsFanInv ==
  ASSUME FanInv, Release, hotFor' \in [{80, 90} -> Nat], protected' \in BOOLEAN, ticks' \in Nat,
         UNCHANGED <<tuning, editorVars>>
  PROVE  FanInv'
<1> USE DEF Release
<1>1. inUse' \in Held
  BY DEF FirstHeld, Held, NoTemperature
<1>2. duty' \in [Fans -> [value : 0 .. 255, known : BOOLEAN]]
  BY DEF NoDuty, NoDuties
<1>3. samples' \in Seq(Samples) /\ Len(samples') = 0 /\ 1 .. 0 = {}
  OBVIOUS
<1>4. FanTypeOK'
  BY <1>1, <1>2, <1>3 DEF FanInv, FanTypeOK, editorVars
<1>5. WindowIsHot'
  BY <1>3 DEF WindowIsHot, Oldest1st
<1> QED BY <1>4, <1>5 DEF FanInv, InstalledCurve, DutyIsRising, FailuresCount

(* What a tick learns of the heat.                                         *)
LEMMA HeatIs ==
  ASSUME FanTypeOK, NEW millic \in Int, NEW gap \in Nat, Heat(millic, gap), elapsed' \in Nat
  PROVE  /\ hotFor' \in [{80, 90} -> Nat]
         /\ \A l \in {80, 90} : /\ hotFor'[l] <= hotFor[l] + gap
                                /\ hotFor'[l] > 0 => millic >= Limit(l)
<1>1. /\ \A l \in {80, 90} : hotFor[l] \in Nat
      /\ tuning.up \in Nat /\ tuning.seconds \in Nat
  BY DEF FanTypeOK
<1> DEFINE most == AnswerTime + elapsed'
<1>2. most \in Nat
  BY <1>1 DEF AnswerTime, Window
<1>3. \A l \in {80, 90} : Min({most, hotFor[l] + gap}) =
                            IF most <= hotFor[l] + gap THEN most ELSE hotFor[l] + gap
  BY <1>1, <1>2, MinOfTwo
<1>4. hotFor' = [limit \in {80, 90} |-> IF millic < Limit(limit) THEN 0
                                        ELSE Min({most, hotFor[limit] + gap})]
  BY DEF Heat, Limit
<1> HIDE DEF most
<1>5. \A l \in {80, 90} : Limit(l) \in Int
  BY <1>1 DEF Limit
<1>6. \A l \in {80, 90} : /\ hotFor'[l] \in Nat /\ hotFor'[l] <= hotFor[l] + gap
                          /\ hotFor'[l] > 0 => millic >= Limit(l)
  <2> SUFFICES ASSUME NEW l \in {80, 90}
               PROVE  /\ hotFor'[l] \in Nat /\ hotFor'[l] <= hotFor[l] + gap
                      /\ hotFor'[l] > 0 => millic >= Limit(l)
    OBVIOUS
  <2>1. hotFor'[l] = IF millic < Limit(l) THEN 0 ELSE Min({most, hotFor[l] + gap})
    BY <1>4
  <2>2. Limit(l) \in Int /\ hotFor[l] \in Nat
    BY <1>1, <1>5
  <2> QED BY <1>2, <1>3, <2>1, <2>2
<1> QED BY <1>4, <1>6

(* The window after a tick, and its mean once the heat is older than it.   *)
LEMMA WindowKept ==
  ASSUME FanTypeOK, WindowIsHot, NEW millic \in Int, NEW gap \in Nat, NEW hotGap \in Nat,
         Heat(millic, hotGap), elapsed' \in Nat, gap = hotGap \/ samples = <<>>,
         NEW w, w = Sampled(samples, gap, millic, tuning.seconds)
  PROVE  /\ w \in Seq(Samples) /\ Oldest1st(w)
         /\ \A l \in {80, 90}, i \in 1 .. Len(w) : w[i].age < hotFor'[l] => w[i].value >= Limit(l)
         /\ Mean(w, millic) \in Int
         /\ \A l \in {80, 90} : hotFor'[l] > Window(tuning.seconds) => Mean(w, millic) >= Limit(l)
<1>1. tuning.seconds \in Nat /\ tuning.up \in Nat /\ samples \in Seq(Samples) /\ Oldest1st(samples)
  BY DEF FanTypeOK, WindowIsHot
<1>2. /\ w \in Seq(Samples) /\ Oldest1st(w)
      /\ \A i \in 1 .. Len(w) :
           /\ w[i].age < Window(tuning.seconds)
           /\ \/ w[i].value = millic
              \/ \E j \in 1 .. Len(samples) :
                   w[i].age = samples[j].age + gap /\ w[i].value = samples[j].value
  <2> DEFINE seconds == tuning.seconds
  <2>1. seconds \in Nat /\ w = Sampled(samples, gap, millic, seconds)
    BY <1>1
  <2> HIDE DEF seconds
  <2>2. /\ w \in Seq(Samples) /\ Oldest1st(w)
        /\ \A i \in 1 .. Len(w) :
             /\ w[i].age < Window(seconds)
             /\ \/ w[i].value = millic
                \/ \E j \in 1 .. Len(samples) :
                     w[i].age = samples[j].age + gap /\ w[i].value = samples[j].value
    BY <1>1, <2>1, SampledIs
  <2> QED BY <2>2 DEF seconds
<1>3. \A i \in 1 .. Len(w) : w[i].age \in Nat /\ w[i].value \in Int
  <2> SUFFICES ASSUME NEW i \in 1 .. Len(w) PROVE w[i].age \in Nat /\ w[i].value \in Int
    OBVIOUS
  <2>1. w[i] \in Samples
    BY <1>2
  <2> QED BY <2>1 DEF Samples
<1>4. \A j \in 1 .. Len(samples) : samples[j].age \in Nat
  <2> SUFFICES ASSUME NEW j \in 1 .. Len(samples) PROVE samples[j].age \in Nat
    OBVIOUS
  <2>1. samples[j] \in Samples
    BY <1>1
  <2> QED BY <2>1 DEF Samples
<1>5. /\ hotFor' \in [{80, 90} -> Nat]
      /\ \A l \in {80, 90} : /\ hotFor'[l] <= hotFor[l] + hotGap
                             /\ hotFor'[l] > 0 => millic >= Limit(l)
  BY HeatIs
<1>6. \A l \in {80, 90} : hotFor[l] \in Nat /\ hotFor'[l] \in Nat /\ Limit(l) \in Nat
  <2>1. \A l \in {80, 90} : hotFor[l] \in Nat /\ hotFor'[l] \in Nat
    BY <1>5 DEF FanTypeOK
  <2>2. \A l \in {80, 90} : (l + tuning.up) * 1000 \in Nat
    BY <1>1
  <2> QED BY <2>1, <2>2 DEF Limit
<1>7. ASSUME NEW l \in {80, 90}, NEW i \in 1 .. Len(w), w[i].age < hotFor'[l]
      PROVE  w[i].value >= Limit(l)
  <2>1. CASE w[i].value = millic
    <3>1. hotFor'[l] > 0
      <4> DEFINE a == w[i].age
                 k == hotFor'[l]
      <4>1. a \in Nat /\ k \in Nat /\ a < k
        BY <1>3, <1>6, <1>7
      <4> HIDE DEF a, k
      <4>2. k > 0
        BY <4>1
      <4> QED BY <4>2 DEF k
    <3> QED BY <1>5, <2>1, <3>1
  <2>2. ASSUME NEW j \in 1 .. Len(samples),
               w[i].age = samples[j].age + gap, w[i].value = samples[j].value
        PROVE  w[i].value >= Limit(l)
    <3>1. samples # <<>>
      BY <2>2
    <3>2. samples[j].age < hotFor[l]
      <4> DEFINE a == w[i].age
                 b == samples[j].age
                 h == hotFor[l]
                 k == hotFor'[l]
      <4>1. a = b + gap /\ a < k /\ k <= h + gap /\ b \in Nat /\ h \in Nat /\ k \in Nat
        <5>1. a = b + gap /\ a < k
          BY <1>7, <2>2
        <5>2. b \in Nat /\ h \in Nat /\ k \in Nat
          BY <1>4, <1>6
        <5>3. gap = hotGap /\ k <= h + hotGap
          BY <1>5, <3>1
        <5> QED BY <5>1, <5>2, <5>3
      <4> HIDE DEF a, b, h, k
      <4>2. b < h
        BY <4>1
      <4> QED BY <4>2 DEF b, h
    <3> QED BY <2>2, <3>2 DEF WindowIsHot
  <2> QED BY <1>2, <2>1, <2>2
<1>8. Mean(w, millic) \in Int
  BY <1>2, MeanIs
<1>9. ASSUME NEW l \in {80, 90}, hotFor'[l] > Window(tuning.seconds)
      PROVE  Mean(w, millic) >= Limit(l)
  <2>1. Window(tuning.seconds) \in Nat
    BY <1>1 DEF Window
  <2>2. hotFor'[l] > 0 /\ millic >= Limit(l)
    <3> DEFINE k == hotFor'[l]
               W == Window(tuning.seconds)
    <3>1. k \in Nat /\ W \in Nat /\ k > W
      BY <1>6, <1>9, <2>1
    <3>2. k > 0 => millic >= Limit(l)
      BY <1>5
    <3> HIDE DEF k, W
    <3>3. k > 0
      BY <3>1
    <3> QED BY <3>2, <3>3 DEF k
  <2>3. \A i \in 1 .. Len(w) : w[i].value >= Limit(l)
    <3> SUFFICES ASSUME NEW i \in 1 .. Len(w) PROVE w[i].value >= Limit(l)
      OBVIOUS
    <3> DEFINE a == w[i].age
               W == Window(tuning.seconds)
               k == hotFor'[l]
    <3>1. a \in Nat /\ a < W
      BY <1>2, <1>3
    <3>2. W \in Nat /\ k \in Nat /\ k > W
      BY <1>6, <1>9, <2>1
    <3> HIDE DEF a, W, k
    <3>3. a < k
      BY <3>1, <3>2
    <3> QED BY <1>7, <3>3 DEF a, k
  <2> DEFINE low == Limit(l)
  <2>4. low \in Nat /\ millic >= low /\ (\A i \in 1 .. Len(w) : w[i].value >= low) /\ w \in Seq(Samples)
    BY <1>2, <1>6, <2>2, <2>3
  <2> HIDE DEF low
  <2>5. Mean(w, millic) >= low
    BY <2>4, MeanIsHot
  <2> QED BY <2>5 DEF low
<1> QED BY <1>2, <1>7, <1>8, <1>9

LEMMA HardwareIs ==
  ASSUME authored \in [Fans -> Curves], NEW required
  PROVE  /\ Hardware(required) # <<>>
         /\ \A fan \in Fans : /\ Hardware(required)[fan] \in Curves
                              /\ required => Hardware(required)[fan] = HighPowerCurve(authored[fan])
<1>1. DOMAIN Hardware(required) = 1 .. 2 /\ DOMAIN <<>> = 1 .. 0
  BY DEF Hardware, Fans
<1>2. 1 \in 1 .. 2 /\ 1 \notin 1 .. 0
  OBVIOUS
<1>3. \A fan \in Fans : HighPowerCurve(authored[fan]) \in Curves
  BY LockedIsSound
<1> QED BY <1>1, <1>2, <1>3 DEF Hardware

(* A fan `late' behind, whose duty v has climbed for the heat of h less    *)
(* the window w, moves to n, towards t or up the ramp of past + g: both    *)
(* the duty it moves to and the one it leaves keep up with the heat k.     *)
Climbing(h, k, g, w, past, late, v, n, t, lock) ==
  /\ h \in Nat /\ k \in Nat /\ g \in Nat /\ w \in Nat /\ past \in Nat /\ late \in Nat
  /\ v \in Nat /\ n \in Nat /\ t \in Nat /\ lock \in Nat
  /\ k <= h + g /\ late <= past /\ (k > w => t >= lock)
  /\ v >= lock \/ 1000 * v >= 255 * (h - w - late)
  /\ n >= t \/ 1000 * n >= 1000 * v + 255 * (past + g)

KeepsUp(n, k, w, late, lock) == n >= lock \/ 1000 * n >= 255 * (k - w - late)

LEMMA ClimbKeepsUp ==
  ASSUME NEW h, NEW k, NEW g, NEW w, NEW past, NEW late, NEW v, NEW n, NEW t, NEW lock,
         Climbing(h, k, g, w, past, late, v, n, t, lock)
  PROVE  KeepsUp(n, k, w, 0, lock) /\ KeepsUp(v, k, w, past + g, lock)
<1> USE DEF Climbing, KeepsUp
<1>1. CASE k <= w
  BY <1>1
<1>2. CASE k > w
  BY <1>2
<1> QED BY <1>1, <1>2

(* A fan that has the duty of the curve keeps up as well.                  *)
LEMMA TargetKeepsUp ==
  ASSUME NEW n \in Nat, NEW k \in Nat, NEW w \in Nat, NEW lock \in Nat, k > w => n >= lock
  PROVE  KeepsUp(n, k, w, 0, lock)
<1>1. CASE k <= w
  BY <1>1 DEF KeepsUp
<1>2. CASE k > w
  BY <1>2 DEF KeepsUp
<1> QED BY <1>1, <1>2

(* The next duty of a fan, from the temperature in use: at an installation *)
(* it is the curve's, else it ramps towards it, by the time since both     *)
(* fans were last served, which is no less than the fan is behind.         *)
NextOf(fan, c, used, gap, force) ==
  IF force THEN DutyAt(c, used) ELSE RampDuty(duty[fan].value, DutyAt(c, used), elapsed + gap)

HeatIsSeen(fan, c, used, gap, hotGap, force) ==
  /\ c \in Curves /\ used \in Int /\ gap \in Nat /\ hotGap \in Nat /\ force \in BOOLEAN
  /\ hotFor' \in [{80, 90} -> Nat] /\ \A l \in {80, 90} : hotFor'[l] <= hotFor[l] + hotGap
  /\ protected' => c = HighPowerCurve(authored[fan])
  /\ \A l \in {80, 90} : hotFor'[l] > Window(tuning.seconds) => used >= l * 1000
  /\ force \/ (gap = hotGap /\ curves # <<>> /\ protected' = protected)

LEMMA NextDuty ==
  ASSUME FanInv, NEW fan \in Fans, NEW c, NEW used, NEW gap, NEW hotGap, NEW force,
         HeatIsSeen(fan, c, used, gap, hotGap, force)
  PROVE  /\ NextOf(fan, c, used, gap, force) \in 0 .. 255
         /\ protected' => \A l \in {80, 90} :
              KeepsUp(NextOf(fan, c, used, gap, force), hotFor'[l], Window(tuning.seconds), 0, LockDuty(l))
         /\ protected' /\ ~force => \A l \in {80, 90} :
              KeepsUp(duty[fan].value, hotFor'[l], Window(tuning.seconds), elapsed + gap, LockDuty(l))
<1> DEFINE next == NextOf(fan, c, used, gap, force)
           target == DutyAt(c, used)
           W == Window(tuning.seconds)
           v == duty[fan].value
           behind == Behind(fan)
<1> USE DEF HeatIsSeen
<1>1. /\ authored[fan] \in Curves /\ W \in Nat /\ v \in 0 .. 255 /\ elapsed \in Nat
      /\ \A l \in {80, 90} : hotFor[l] \in Nat
      /\ behind \in Nat /\ behind <= elapsed
  BY DEF FanInv, FanTypeOK, Window, Behind
<1>2. ASSUME protected', ~force, NEW l \in {80, 90}
      PROVE  v >= LockDuty(l) \/ 1000 * v >= 255 * (hotFor[l] - W - behind)
  <2>1. curves # <<>> /\ protected /\ DutyIsRising
    BY <1>2 DEF FanInv
  <2> QED BY <2>1 DEF DutyIsRising
<1>3. target \in 0 .. 255
  BY DutyAtIs
<1>4. ASSUME protected', NEW l \in {80, 90}, hotFor'[l] > W
      PROVE  target >= LockDuty(l)
  <2>1. c = HighPowerCurve(authored[fan]) /\ used >= l * 1000
    BY <1>4
  <2> DEFINE d == authored[fan]
  <2>2. d \in Curves /\ target = DutyAt(HighPowerCurve(d), used)
    BY <1>1, <2>1
  <2> HIDE DEF d, target
  <2>3. used >= 80000 /\ (l = 90 => used >= 90000)
    BY <2>1
  <2>4. target >= 204 /\ (used >= 90000 => target = 255)
    BY <2>2, <2>3, LockedAnswers
  <2> QED BY <2>3, <2>4, <1>3 DEF LockDuty
<1> HIDE DEF target, behind, W, v, next
<1>5. elapsed + gap \in Nat
  BY <1>1
<1>6. /\ next \in 0 .. 255
      /\ force => next = target
      /\ ~force => next >= target \/ 1000 * next >= 1000 * v + 255 * (elapsed + gap)
  <2>1. CASE force
    BY <1>3, <2>1 DEF target, next, NextOf
  <2>2. CASE ~force
    <3> DEFINE millis == elapsed + gap
    <3>1. next = RampDuty(v, target, millis) /\ millis \in Nat
      BY <1>5, <2>2 DEF target, v, next, NextOf
    <3> HIDE DEF millis
    <3>2. next \in 0 .. 255 /\ Climbs(next, v, target, millis)
      BY <1>1, <1>3, <3>1, RampIs
    <3> QED BY <2>2, <3>2 DEF Climbs, millis
  <2> QED BY <2>1, <2>2
<1>7. ASSUME NEW l \in {80, 90}, protected'
      PROVE  /\ KeepsUp(next, hotFor'[l], W, 0, LockDuty(l))
             /\ ~force => KeepsUp(v, hotFor'[l], W, elapsed + gap, LockDuty(l))
  <2> DEFINE h == hotFor[l]
             k == hotFor'[l]
             lock == LockDuty(l)
  <2>1. /\ h \in Nat /\ k \in Nat /\ k <= h + hotGap /\ lock \in Nat
        /\ W \in Nat /\ v \in Nat /\ next \in Nat /\ target \in Nat
    BY <1>1, <1>3, <1>6 DEF LockDuty
  <2>2. k > W => target >= lock
    BY <1>4, <1>7
  <2>3. CASE force
    <3>1. next = target
      BY <1>6, <2>3
    <3> HIDE DEF k, lock
    <3>2. KeepsUp(next, k, W, 0, lock)
      BY <2>1, <2>2, <3>1, TargetKeepsUp
    <3> QED BY <2>3, <3>2 DEF k, lock
  <2>4. CASE ~force
    <3>1. gap = hotGap
      BY <2>4
    <3>2. v >= lock \/ 1000 * v >= 255 * (h - W - behind)
      BY <1>2, <1>7, <2>4
    <3>3. next >= target \/ 1000 * next >= 1000 * v + 255 * (elapsed + gap)
      BY <1>6, <2>4
    <3> HIDE DEF h, k, lock
    <3>4. Climbing(h, k, gap, W, elapsed, behind, v, next, target, lock)
      BY <1>1, <2>1, <2>2, <3>1, <3>2, <3>3 DEF Climbing
    <3>5. KeepsUp(next, k, W, 0, lock) /\ KeepsUp(v, k, W, elapsed + gap, lock)
      BY <3>4, ClimbKeepsUp
    <3> QED BY <3>5 DEF k, lock
  <2> QED BY <2>3, <2>4
<1> QED BY <1>6, <1>7 DEF W, v, next

(* tick_inner, for an installation (forced, over an empty window) and for  *)
(* a tick, whose gap counts for the heat and for the ramp alike. Three     *)
(* ends: both fans are served, a write fails, or the fans are released.    *)
LEMMA DriveKeepsFanInv ==
  ASSUME FanInv, NEW millic \in Int, NEW gap \in Nat, NEW hotGap \in Nat,
         NEW force \in BOOLEAN, NEW served \in 0 .. 2, NEW c, c = Hardware(protected'),
         Drive(c, millic, gap, force, served), Heat(millic, hotGap),
         \/ force /\ served = 2 /\ samples = <<>>
         \/ ~force /\ gap = hotGap /\ gap \in Gaps /\ curves # <<>> /\ protected' = protected,
         protected' \in BOOLEAN, ticks' \in Nat \ {0}, UNCHANGED <<tuning, editorVars>>
  PROVE  FanInv'
<1> DEFINE window == Sampled(samples, gap, millic, tuning.seconds)
           mean == Mean(window, millic)
           used == HystereticTemperature(mean, tuning.up, tuning.down, inUse)
           next == [fan \in Fans |->
                      IF force THEN DutyAt(c[fan], used.at)
                      ELSE RampDuty(duty[fan].value, DutyAt(c[fan], used.at), elapsed + gap)]
           failed == served + 1
           after(fan) == IF fan <= served THEN [value |-> next[fan], known |-> TRUE]
                         ELSE [duty[fan] EXCEPT !.known = @ /\ fan # failed]
           W == Window(tuning.seconds)
<1>1. /\ authored \in [Fans -> Curves] /\ authored' = authored /\ tuning' = tuning
      /\ tuning.up \in Nat /\ tuning.down \in Nat /\ tuning.seconds \in Nat /\ W \in Nat
      /\ inUse \in Held /\ duty \in [Fans -> [value : 0 .. 255, known : BOOLEAN]]
      /\ elapsed \in Nat /\ ecErrors \in 0 .. 2
      /\ samples \in Seq(Samples) /\ FanTypeOK /\ WindowIsHot
      /\ \A l \in {80, 90} : hotFor[l] \in Nat
  BY DEF FanInv, FanTypeOK, editorVars, Window
<1>2. \A fan \in Fans : /\ c[fan] \in Curves
                        /\ protected' => c[fan] = HighPowerCurve(authored[fan])
  BY <1>1, HardwareIs
<1>3. \/ /\ served = 2 /\ curves' = c /\ samples' = window /\ inUse' = used
         /\ duty' = [fan \in Fans |-> after(fan)] /\ elapsed' = 0 /\ ecErrors' = 0
      \/ /\ failed \in Fans /\ ecErrors + 1 < 3
         /\ curves' = c /\ samples' = window /\ inUse' = used
         /\ duty' = [fan \in Fans |-> after(fan)] /\ elapsed' = elapsed + gap
         /\ ecErrors' = ecErrors + 1
      \/ Release
  BY DEF Drive, MAX_CONSECUTIVE_EC_ERRORS
<1>4. elapsed' \in Nat
  BY <1>1, <1>3 DEF Release
<1>5. /\ window \in Seq(Samples) /\ Oldest1st(window)
      /\ \A l \in {80, 90}, i \in 1 .. Len(window) :
           window[i].age < hotFor'[l] => window[i].value >= Limit(l)
      /\ mean \in Int
      /\ \A l \in {80, 90} : hotFor'[l] > W => mean >= Limit(l)
  <2>1. gap = hotGap \/ samples = <<>>
    OBVIOUS
  <2> QED BY <1>1, <1>4, <2>1, WindowKept
<1>6. /\ hotFor' \in [{80, 90} -> Nat]
      /\ \A l \in {80, 90} : hotFor'[l] <= hotFor[l] + hotGap
  BY <1>1, <1>4, HeatIs
<1> HIDE DEF window, W
<1>7. /\ used \in Held
      /\ \A l \in {80, 90} : hotFor'[l] > W => used.at >= l * 1000
  <2> HIDE DEF mean
  <2>1. /\ used \in Held
        /\ \A limit \in Int : mean >= (limit + tuning.up) * 1000 => used.at >= limit * 1000
    <3> DEFINE up == tuning.up
               down == tuning.down
    <3>1. up \in Nat /\ down \in Nat /\ inUse \in Held
      BY <1>1
    <3>2. used = HystereticTemperature(mean, up, down, inUse) /\ mean \in Int
      BY <1>5
    <3> HIDE DEF used, up, down
    <3>3. /\ used \in Held
          /\ \A limit \in Int : mean >= (limit + up) * 1000 => used.at >= limit * 1000
      BY <3>1, <3>2, HystereticIs
    <3> QED BY <3>3 DEF up
  <2> HIDE DEF used
  <2>2. \A l \in {80, 90} : l \in Int
    OBVIOUS
  <2> QED BY <1>5, <2>1, <2>2 DEF Limit
<1> HIDE DEF mean, used
<1>8. used.at \in Int
  BY <1>7 DEF Held
<1>9. ASSUME NEW fan \in Fans
      PROVE  /\ next[fan] \in 0 .. 255
             /\ protected' => \A l \in {80, 90} : KeepsUp(next[fan], hotFor'[l], W, 0, LockDuty(l))
             /\ protected' /\ ~force => \A l \in {80, 90} :
                  KeepsUp(duty[fan].value, hotFor'[l], W, elapsed + gap, LockDuty(l))
  <2> DEFINE d == c[fan]
             u == used.at
  <2>1. next[fan] = NextOf(fan, d, u, gap, force)
    BY DEF NextOf
  <2>2. HeatIsSeen(fan, d, u, gap, hotGap, force)
    BY <1>2, <1>6, <1>7, <1>8 DEF HeatIsSeen, W
  <2> HIDE DEF d, u, next
  <2> QED BY <2>1, <2>2, NextDuty DEF W
<1> HIDE DEF next
<1>10. W = Window(tuning'.seconds) /\ Window(tuning.seconds)' = W /\ \A l \in {80, 90} : Limit(l)' = Limit(l)
  BY <1>1 DEF W, Limit
<1>11. ASSUME NEW fan \in Fans
       PROVE  /\ after(fan) \in [value : 0 .. 255, known : BOOLEAN]
              /\ fan <= served => after(fan).value = next[fan] /\ after(fan).known
              /\ ~(fan <= served) => after(fan).value = duty[fan].value
              /\ fan = failed => ~after(fan).known
  <2> DEFINE was == duty[fan]
  <2>1. was \in [value : 0 .. 255, known : BOOLEAN] /\ next[fan] \in 0 .. 255
    BY <1>1, <1>9
  <2> HIDE DEF was
  <2>2. CASE fan <= served
    <3>1. after(fan) = [value |-> next[fan], known |-> TRUE] /\ fan # failed
      BY <2>2 DEF Fans
    <3> QED BY <2>1, <2>2, <3>1
  <2>3. CASE ~(fan <= served)
    <3> DEFINE still == was.known /\ fan # failed
    <3>1. after(fan) = [was EXCEPT !.known = still]
      BY <2>3 DEF was
    <3>2. still \in BOOLEAN /\ (fan = failed => ~still)
      OBVIOUS
    <3> HIDE DEF still, after
    <3>3. /\ after(fan) \in [value : 0 .. 255, known : BOOLEAN]
          /\ after(fan).value = was.value /\ after(fan).known = still
      BY <2>1, <3>1, <3>2
    <3> QED BY <2>3, <3>2, <3>3 DEF was
  <2> QED BY <2>2, <2>3
<1> HIDE DEF after
<1>12. ASSUME curves' = c, samples' = window, inUse' = used, ecErrors' \in 0 .. 2,
              duty' = [fan \in Fans |-> after(fan)], FailuresCount',
              \A fan \in Fans, l \in {80, 90} : protected' =>
                 KeepsUp(duty'[fan].value, hotFor'[l], W, Behind(fan)', LockDuty(l))
       PROVE  FanInv'
  <2>1. duty' \in [Fans -> [value : 0 .. 255, known : BOOLEAN]]
    BY <1>11, <1>12
  <2>2. FanTypeOK'
    <3>1. tuning \in [up : Nat, down : Nat, seconds : Nat]
      BY <1>1 DEF FanTypeOK
    <3>2. samples' \in Seq(Samples) /\ inUse' \in Held /\ ecErrors' \in 0 .. 2
      BY <1>5, <1>7, <1>12
    <3> QED BY <1>1, <1>4, <1>6, <2>1, <3>1, <3>2 DEF FanTypeOK
  <2>3. InstalledCurve'
    <3>1. Hardware(protected)' = Hardware(protected') /\ c # <<>>
      BY <1>1, HardwareIs DEF Hardware
    <3> QED BY <1>12, <3>1 DEF InstalledCurve
  <2>4. WindowIsHot'
    BY <1>5, <1>10, <1>12 DEF WindowIsHot, Oldest1st
  <2>5. DutyIsRising'
    BY <1>10, <1>12 DEF DutyIsRising, KeepsUp, LockDuty
  <2> QED BY <1>12, <2>2, <2>3, <2>4, <2>5 DEF FanInv
<1>13. CASE /\ served = 2 /\ curves' = c /\ samples' = window /\ inUse' = used
            /\ duty' = [fan \in Fans |-> after(fan)] /\ elapsed' = 0 /\ ecErrors' = 0
  <2>1. FailuresCount'
    BY <1>13, NothingFailed DEF FailuresCount
  <2>2. ASSUME NEW fan \in Fans
        PROVE  duty'[fan].value = next[fan] /\ duty'[fan].known
    <3>1. fan <= served
      BY <1>13 DEF Fans
    <3> QED BY <1>11, <1>13, <3>1
  <2>3. \A fan \in Fans : Behind(fan)' = 0
    BY <1>13, <2>2 DEF Behind
  <2> QED BY <1>9, <1>12, <1>13, <2>1, <2>2, <2>3
<1>14. CASE /\ failed \in Fans /\ ecErrors + 1 < 3
            /\ curves' = c /\ samples' = window /\ inUse' = used
            /\ duty' = [fan \in Fans |-> after(fan)] /\ elapsed' = elapsed + gap
            /\ ecErrors' = ecErrors + 1
  <2>1. ~force /\ gap \in Gaps
    BY <1>14 DEF Fans
  <2>2. FailuresCount'
    <3>1. PICK past \in Gaps \cup {0} : elapsed <= ecErrors * past
      BY DEF FanInv, FailuresCount
    <3>2. past \in Nat
      BY FanControlAssumption
    <3>3. CASE ecErrors = 0
      BY <1>1, <1>14, <2>1, <3>1, <3>2, <3>3 DEF FailuresCount
    <3>4. CASE ecErrors = 1
      <4>1. elapsed' <= 2 * past \/ elapsed' <= 2 * gap
        BY <1>1, <1>14, <3>1, <3>2, <3>4
      <4> QED BY <1>14, <2>1, <3>4, <4>1 DEF FailuresCount
    <3> QED BY <1>1, <1>14, <3>3, <3>4
  <2>3. ASSUME NEW fan \in Fans, NEW l \in {80, 90}, protected'
        PROVE  KeepsUp(duty'[fan].value, hotFor'[l], W, Behind(fan)', LockDuty(l))
    <3>1. CASE fan <= served
      <4>1. ASSUME NEW first \in 1 .. fan PROVE duty'[first].known
        <5>1. first \in Fans /\ first <= served
          BY <3>1 DEF Fans
        <5> QED BY <1>11, <1>14, <5>1
      <4>2. Behind(fan)' = 0
        BY <4>1 DEF Behind
      <4>3. duty'[fan].value = next[fan]
        BY <1>11, <1>14, <3>1
      <4> QED BY <1>9, <2>3, <4>2, <4>3
    <3>2. CASE ~(fan <= served)
      <4>1. failed \in 1 .. fan
        BY <3>2 DEF Fans
      <4>2. ~duty'[failed].known
        BY <1>11, <1>14
      <4>3. Behind(fan)' = elapsed + gap
        BY <1>14, <4>1, <4>2 DEF Behind
      <4>4. duty'[fan].value = duty[fan].value
        BY <1>11, <1>14, <3>2
      <4> QED BY <1>9, <2>1, <2>3, <4>3, <4>4
    <3> QED BY <3>1, <3>2
  <2>4. ecErrors' \in 0 .. 2
    BY <1>1, <1>14
  <2> QED BY <1>12, <1>14, <2>2, <2>3, <2>4
<1>15. CASE Release
  <2>1. ticks' \in Nat
    OBVIOUS
  <2> QED BY <1>6, <1>15, <2>1, ReleaseKeepsFanInv
<1> QED BY <1>3, <1>13, <1>14, <1>15

(* Every step of the editor and of the controller keeps the invariant.     *)
LEMMA StepKeepsFanInv ==
  ASSUME FanInv, [FanControlNext]_fanControlVars
  PROVE  FanInv'
<1>1. CASE EditCurve
  BY <1>1, EditKeepsFanInv
<1>2. ASSUME NEW pl1, NEW disabled, NEW inputs, Install(pl1, disabled, inputs)
      PROVE  FanInv'
  <2> DEFINE millic == ReadTemperature(inputs)
             required == FanProtectionRequired(pl1, disabled)
             c == Hardware(required)
  <2>1. /\ curves = <<>> /\ Drive(c, millic, 0, TRUE, 2) /\ protected' = required
        /\ Heat(millic, AnswerTime) /\ ticks' = 1 /\ UNCHANGED <<tuning, editorVars>>
    BY <1>2 DEF Install
  <2>2. millic \in Int
    BY ReadingIs
  <2>3. required \in BOOLEAN
    BY DEF FanProtectionRequired
  <2> HIDE DEF millic, required
  <2>4. samples = <<>>
    BY <2>1 DEF FanInv, InstalledCurve
  <2>5. AnswerTime \in Nat
    BY DEF FanInv, FanTypeOK, AnswerTime, Window
  <2>6. c = Hardware(protected') /\ protected' \in BOOLEAN
    BY <2>1, <2>3
  <2>7. 0 \in Nat /\ TRUE \in BOOLEAN /\ 2 \in 0 .. 2 /\ ticks' \in Nat \ {0}
    BY <2>1
  <2> HIDE DEF c
  <2> QED BY <2>1, <2>2, <2>4, <2>5, <2>6, <2>7, DriveKeepsFanInv
<1>3. ASSUME NEW inputs, NEW gap \in Gaps, NEW served \in 0 .. 2, Tick(inputs, gap, served)
      PROVE  FanInv'
  <2> DEFINE millic == ReadTemperature(inputs)
  <2>1. /\ curves # <<>> /\ ticks' = ticks + 1
        /\ \/ Release /\ UNCHANGED hotFor
           \/ Drive(curves, millic, gap, FALSE, served) /\ Heat(millic, gap)
        /\ UNCHANGED <<tuning, protected, editorVars>>
    BY <1>3 DEF Tick
  <2>2. millic \in Int
    BY ReadingIs
  <2> HIDE DEF millic
  <2>3. gap \in Nat
    BY FanControlAssumption
  <2>4. ticks' \in Nat \ {0} /\ ticks' \in Nat
    BY <2>1 DEF FanInv
  <2>5. protected' \in BOOLEAN /\ protected' = protected /\ UNCHANGED <<tuning, editorVars>>
    BY <2>1 DEF FanInv, FanTypeOK
  <2>6. CASE Release /\ UNCHANGED hotFor
    <3>1. hotFor' \in [{80, 90} -> Nat]
      BY <2>6 DEF FanInv, FanTypeOK
    <3> QED BY <2>4, <2>5, <2>6, <3>1, ReleaseKeepsFanInv
  <2>7. CASE Drive(curves, millic, gap, FALSE, served) /\ Heat(millic, gap)
    <3>1. curves = Hardware(protected')
      BY <2>1, <2>5 DEF FanInv, InstalledCurve
    <3>2. FALSE \in BOOLEAN
      OBVIOUS
    <3> QED BY <2>1, <2>2, <2>3, <2>4, <2>5, <2>7, <3>1, <3>2, DriveKeepsFanInv
  <2> QED BY <2>1, <2>6, <2>7
<1>4. CASE UNCHANGED fanControlVars
  <2>1. UNCHANGED <<authored, curves, tuning, protected, samples, inUse, duty, elapsed, ecErrors,
                    hotFor, ticks>>
    BY <1>4 DEF fanControlVars, editorVars, controllerVars
  <2>2. Hardware(protected)' = Hardware(protected) /\ \A fan \in Fans : Behind(fan)' = Behind(fan)
    BY <2>1 DEF Hardware, Behind
  <2> QED BY <2>1, <2>2 DEF FanInv, FanTypeOK, InstalledCurve, WindowIsHot, DutyIsRising,
                            FailuresCount, Oldest1st, Limit
<1> QED BY <1>1, <1>2, <1>3, <1>4 DEF FanControlNext, Control

(* Where the heat has lasted for the window and a second more, and for as  *)
(* long as the fan is behind, the ramp has had its second.                 *)
LEMMA FanInvIsEnough ==
  ASSUME FanInv
  PROVE  ProtectedFansAreFast
<1>1. \A fan \in Fans : CurveIsSound(authored[fan])
  <2> SUFFICES ASSUME NEW fan \in Fans PROVE CurveIsSound(authored[fan])
    OBVIOUS
  <2>1. authored[fan] \in Curves
    BY DEF FanInv, FanTypeOK
  <2> QED BY <2>1, CurvesAreSound
<1>2. ASSUME curves # <<>>, protected, NEW fan \in Fans
      PROVE  /\ hotFor[80] >= AnswerTime + Behind(fan) => duty[fan].value >= HIGH_POWER_POINT_PWM
             /\ hotFor[90] >= AnswerTime + Behind(fan) => duty[fan].value = PWM_MAX
  <2> DEFINE W == Window(tuning.seconds)
             v == duty[fan].value
             h == hotFor[80]
             k == hotFor[90]
             b == Behind(fan)
  <2>1. v \in 0 .. 255 /\ h \in Nat /\ k \in Nat /\ W \in Nat /\ b \in Nat
    BY DEF FanInv, FanTypeOK, Window, Behind
  <2>2. /\ v >= 204 \/ 1000 * v >= 255 * (h - W - b)
        /\ v >= 255 \/ 1000 * v >= 255 * (k - W - b)
    BY <1>2 DEF FanInv, DutyIsRising, LockDuty
  <2>3. AnswerTime = W + 1000
    BY DEF AnswerTime
  <2> HIDE DEF W, v, h, k, b
  <2>4. (h >= W + 1000 + b => v >= 204) /\ (k >= W + 1000 + b => v = 255)
    BY <2>1, <2>2
  <2> QED BY <2>3, <2>4, Scales DEF v, h, k, b
<1>3. BehindTwoTicks
  <2>1. PICK gap \in Gaps \cup {0} : elapsed <= ecErrors * gap
    BY DEF FanInv, FailuresCount
  <2>2. gap \in Nat /\ elapsed \in Nat /\ ecErrors \in {0, 1, 2}
    BY FanControlAssumption DEF FanInv, FanTypeOK
  <2>3. elapsed <= 2 * gap
    BY <2>1, <2>2
  <2> QED BY <2>3 DEF BehindTwoTicks, MAX_CONSECUTIVE_EC_ERRORS
<1>4. HeatIsAnswered
  BY <1>2, <1>3 DEF HeatIsAnswered
<1> QED BY <1>1, <1>4 DEF ProtectedFansAreFast

(* A protected fan is fast when the APU is hot, whatever curve was drawn,  *)
(* however it is edited, and whatever readings, late ticks and failed      *)
(* writes come (high_power_curve of the core, tick_inner of the daemon):   *)
(* authored and locked curves are always valid and never too slow, and     *)
(* lasting heat is answered by each fan in time, or within two ticks more  *)
(* by a fan that waits behind one whose write failed.                      *)
THEOREM ProtectedFansStayFast == FanControlSpec => []ProtectedFansAreFast
<1>1. FanControlInit => FanInv
  BY FanInvInit
<1>2. FanInv /\ [FanControlNext]_fanControlVars => FanInv'
  BY StepKeepsFanInv
<1>3. FanInv => ProtectedFansAreFast
  BY FanInvIsEnough
<1> QED BY <1>1, <1>2, <1>3, PTL DEF FanControlSpec
============================================================================
