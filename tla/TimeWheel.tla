----------------------------- MODULE TimeWheel -----------------------------
(***************************************************************************)
(* The time wheel (base/timeWheel.h) that plays a log again after a        *)
(* failure.  Its own thread wakes up about once a second and makes up for  *)
(* the milliseconds that have passed with one tick each; the IO thread     *)
(* adds and deletes timers meanwhile, without a lock.                      *)
(*                                                                         *)
(* A slot is the sequence of timers in its vector.  addTimer reads         *)
(* curslot_ in one step and pushes the timer in another.  A push into the  *)
(* vector that tick is walking may invalidate the walk's iterator.         *)
(***************************************************************************)
EXTENDS Integers, Sequences, FiniteSets, SequencesExt

CONSTANTS
  Timer,     \* the timers that can be added
  Timeout,   \* the timeouts they can have
  nslosts_,  \* number of slots
  IntMod,    \* number of values of an int ...
  UllMod,    \* ... and of an unsigned long long
  Boot,      \* what the millisecond clock may show at construction
  MaxNap,    \* bound: milliseconds between two polls
  MaxTick    \* bound: ticks executed

ASSUME TimeWheelAssumption ==
  /\ nslosts_ \in Nat \ {0}
  /\ Timeout \subseteq Nat
  /\ Boot \subseteq Nat
  /\ IntMod \in Nat \ {0} /\ UllMod \in Nat \ {0}
  /\ IntMod % 2 = 0 /\ UllMod % IntMod = 0
  /\ MaxNap \in Nat /\ 2 * MaxNap < IntMod

VARIABLES
  slots_,      \* slot -> its timers
  curslot_,    \* the slot of the next tick
  starttime_,  \* the clock up to which ticks have been executed
  timer,       \* what addTimer stored for each timer, and where it is
  wheel,       \* where the wheel's thread is
  clock,       \* getCurrentMillisecs
  status,      \* "up", or "corrupt" after a push moved a vector being walked
  boot,        \* history: the clock at construction
  ticks,       \* history: ticks executed
  fired        \* history: the ticks at which each timer fired

vars == <<slots_, curslot_, starttime_, timer, wheel, clock, status, boot, ticks,
          fired>>

Slot == 0 .. nslosts_ - 1

\* Conversions to int and to unsigned long long keep the value modulo the type.
ToInt(x) == LET r == x % IntMod IN IF 2 * r < IntMod THEN r ELSE r - IntMod

ToUll(x) == x % UllMod

Init ==
  /\ boot \in Boot
  /\ clock = boot
  /\ starttime_ = ToUll(boot)
  /\ slots_ = [s \in Slot |-> <<>>]
  /\ curslot_ = 0
  /\ timer = [t \in Timer |-> [at |-> "none", timeout |-> 0, slot_ |-> 0,
                               rotations_ |-> 0, base |-> 0, late |-> FALSE]]
  /\ wheel = [pc |-> "wait", now |-> 0, left |-> 0, it |-> 1]
  /\ status = "up"
  /\ ticks = 0
  /\ fired = [t \in Timer |-> <<>>]

----------------------------------------------------------------------------
\* The wheel's thread.

\* Variant: the difference of two ints, without the wrap of the unsigned type.
ElapsedSigned(now) == now - ToInt(starttime_)

\* int cnt = now - starttime_, computed in unsigned long long.
Elapsed(now) == ToInt(ToUll(ToUll(now) - starttime_))

\* epoll_wait returns after d milliseconds; takeAllTimeout begins.
TakeAllTimeout(d) ==
  LET now == ToInt(ToUll(clock + d))
  IN  /\ wheel.pc = "wait"
      /\ ticks + d <= MaxTick
      /\ clock' = clock + d
      /\ wheel' = [pc |-> "tick", now |-> now, left |-> Elapsed(now), it |-> 1]
      /\ UNCHANGED <<slots_, curslot_, starttime_, timer, status, boot, ticks, fired>>

Ticking == wheel.pc = "tick" /\ wheel.left > 0

Walking == Ticking /\ wheel.it <= Len(slots_[curslot_])

\* tick, one timer of the current slot: a rotation is over ...
DecreaseRotations ==
  LET t == slots_[curslot_][wheel.it]
  IN  /\ Walking
      /\ timer[t].rotations_ > 0
      /\ timer' = [timer EXCEPT ![t].rotations_ = @ - 1]
      /\ wheel' = [wheel EXCEPT !.it = @ + 1]
      /\ UNCHANGED <<slots_, curslot_, starttime_, clock, status, boot, ticks, fired>>

\* ... or the timer fires, is erased and deleted.
Active ==
  LET t == slots_[curslot_][wheel.it]
  IN  /\ Walking
      /\ timer[t].rotations_ <= 0
      /\ fired' = [fired EXCEPT ![t] = Append(@, ticks)]
      /\ slots_' = [slots_ EXCEPT ![curslot_] = RemoveAt(@, wheel.it)]
      /\ timer' = [timer EXCEPT ![t].at = "gone"]
      /\ UNCHANGED <<curslot_, starttime_, wheel, clock, status, boot, ticks>>

\* The walk has met end(); what is pushed into the slot now waits for a turn.
EndOfSlot ==
  /\ Ticking
  /\ wheel.it > Len(slots_[curslot_])
  /\ wheel' = [wheel EXCEPT !.pc = "advance", !.it = 1]
  /\ UNCHANGED <<slots_, curslot_, starttime_, timer, clock, status, boot, ticks,
                 fired>>

NextSlot == (curslot_ + 1) % nslosts_

Advance ==
  /\ wheel.pc = "advance"
  /\ curslot_' = NextSlot
  /\ ticks' = ticks + 1
  /\ wheel' = [wheel EXCEPT !.pc = "tick", !.left = @ - 1]
  /\ UNCHANGED <<slots_, starttime_, timer, clock, status, boot, fired>>

\* takeAllTimeout ends.
CaughtUp ==
  /\ wheel.pc = "tick"
  /\ wheel.left <= 0
  /\ starttime_' = ToUll(wheel.now)
  /\ wheel' = [wheel EXCEPT !.pc = "wait"]
  /\ UNCHANGED <<slots_, curslot_, timer, clock, status, boot, ticks, fired>>

----------------------------------------------------------------------------
\* The IO thread.

\* Variant: one rotation too many when the timeout is a multiple of the slots.
RotationsRoundedUp(timeout) == (timeout + nslosts_ - 1) \div nslosts_

Rotations(timeout) == timeout \div nslosts_

\* addTimer reads curslot_ and makes the timer ...
AddTimer(t, timeout) ==
  /\ \A u \in Timer : timer[u].at # "made"
  /\ timer[t].at = "none"
  /\ timer' = [timer EXCEPT ![t] =
       [at |-> "made", timeout |-> timeout, rotations_ |-> Rotations(timeout),
        slot_ |-> (curslot_ + (timeout % nslosts_)) % nslosts_,
        base |-> ticks, late |-> FALSE]]
  /\ UNCHANGED <<slots_, curslot_, starttime_, wheel, clock, status, boot, ticks,
                 fired>>

\* The tick that should be the timer's first visit is already over.
Passed(t) ==
  LET first == timer[t].base + (timer[t].timeout % nslosts_)
  IN  ticks > first \/ (ticks = first /\ wheel.pc = "advance")

\* ... and pushes it into its slot, perhaps the one that is being walked.
PushTimer(t) ==
  /\ timer[t].at = "made"
  /\ timer' = [timer EXCEPT ![t].at = "slot", ![t].late = Passed(t)]
  /\ slots_' = [slots_ EXCEPT ![timer[t].slot_] = Append(@, t)]
  /\ status' \in IF Ticking /\ timer[t].slot_ = curslot_ THEN {"up", "corrupt"}
                                                       ELSE {"up"}
  /\ UNCHANGED <<curslot_, starttime_, wheel, clock, boot, ticks, fired>>

\* Variant: the timer stays in its slot.
UnslottedKept(t) == slots_

Unslotted(t) == [slots_ EXCEPT ![timer[t].slot_] = SelectSeq(@, LAMBDA u : u # t)]

\* delTimer; erasing from the vector that is being walked shifts its timers.
DelTimer(t) ==
  /\ timer[t].at = "slot"
  /\ timer' = [timer EXCEPT ![t].at = "deleted"]
  /\ slots_' = Unslotted(t)
  /\ status' = IF Ticking /\ timer[t].slot_ = curslot_ THEN "corrupt" ELSE "up"
  /\ UNCHANGED <<curslot_, starttime_, wheel, clock, boot, ticks, fired>>

Next ==
  /\ status = "up"
  /\ \/ \E d \in 0 .. MaxNap : TakeAllTimeout(d)
     \/ DecreaseRotations \/ Active \/ EndOfSlot \/ Advance \/ CaughtUp
     \/ \E t \in Timer, timeout \in Timeout : AddTimer(t, timeout)
     \/ \E t \in Timer : PushTimer(t) \/ DelTimer(t)

Spec == Init /\ [][Next]_vars

----------------------------------------------------------------------------

\* The variables have their types, and a timer is in its slot once while it is
\* pending and nowhere otherwise.
TypeOK ==
  /\ slots_ \in [Slot -> Seq(Timer)]
  /\ curslot_ \in Slot
  /\ starttime_ \in 0 .. UllMod - 1
  /\ status = "up" =>
       /\ wheel.it \in 1 .. Len(slots_[curslot_]) + 1
       /\ \A t \in Timer, s \in Slot :
            Cardinality({i \in DOMAIN slots_[s] : slots_[s][i] = t})
              = IF timer[t].at = "slot" /\ timer[t].slot_ = s THEN 1 ELSE 0

\* A timer never fires before its timeout has passed in ticks, fires once, and
\* not after delTimer.  It fires exactly then, unless the wheel passed its slot
\* between addTimer's reading curslot_ and its push: then whole turns later.
\* None that is pending is overdue.
FiresOnTime ==
  \A t \in Timer :
    /\ Len(fired[t]) <= (IF timer[t].at = "gone" THEN 1 ELSE 0)
    /\ \A i \in DOMAIN fired[t] :
         LET delay == fired[t][i] - (timer[t].base + timer[t].timeout)
         IN  IF timer[t].late THEN delay > 0 /\ delay % nslosts_ = 0 ELSE delay = 0
    /\ status = "up" /\ timer[t].at = "slot" /\ ~timer[t].late =>
         ticks <= timer[t].base + timer[t].timeout

\* Ticks do not drift from the clock: after each poll as many have been executed
\* as milliseconds have passed since construction, although takeAllTimeout keeps
\* the time in an int that overflows after 25 days.
NoDrift == status = "up" /\ wheel.pc = "wait" => ticks = clock - boot
============================================================================
