------------------------------- MODULE KeyQueue -------------------------------
(***************************************************************************)
(* keyq of input.c: a ring without a lock between one writer, put_key in   *)
(* the keyboard handler, and one reader, get_key in the debugger.  Each    *)
(* step is one access to the volatile ring.  The handler interrupts the    *)
(* reader on its CPU and then runs to its end before the reader goes on,   *)
(* or it runs on another CPU beside it.                                    *)
(***************************************************************************)
EXTENDS Integers, Sequences

CONSTANTS
  KEYQ_MAX, \* slots of the ring, 64 in the code
  Keys      \* the characters that are put

ASSUME MaxAssumption  == KEYQ_MAX \in Nat /\ KEYQ_MAX > 1
ASSUME KeysAssumption == Keys \subseteq Nat

VARIABLES
  buf, head, tail, \* keyq
  put,             \* the call of put_key: how far it is, the key, and the CPU
  get,             \* the call of get_key: how far it is, the key it has read
  got              \* what the last call of get_key or get_key_async returned

vars == <<buf, head, tail, put, get, got>>
ring == <<buf, head, tail>>

Slots == 0..(KEYQ_MAX - 1)

\* n & (KEYQ_MAX-1), KEYQ_MAX being a power of two
Mask(n) == n % KEYQ_MAX

Inc_NoMask(a) == a + 1                   \* mutant: no wrap at the end of the ring
Inc(a)     == Mask(a + 1)                \* KEYQ_INC
EMPTY      == head = tail                \* KEYQ_EMPTY
LEFT       == Mask(tail - head - 1)      \* KEYQ_LEFT
FULL_Never == FALSE                      \* mutant: put_key does not test
FULL_Off   == Mask(tail - head - 2) = 0  \* mutant: one slot too early
FULL       == LEFT = 0                   \* KEYQ_FULL
CHARS      == Mask(head - tail)          \* KEYQ_CHARS

\* The keys that wait, the oldest first.
Contents == [i \in 1..CHARS |-> buf[Mask(tail + i - 1)]]

-----------------------------------------------------------------------------
\* A key goes down: an interrupt on the reader's CPU, which ends its hlt, or on
\* another CPU.
PutCall(c, site) ==
  /\ put.pc = "idle"
  /\ put' = [pc |-> "test", c |-> c, site |-> site]
  /\ get' = IF site = "same" /\ get.pc = "asleep" THEN [get EXCEPT !.pc = "test"] ELSE get
  /\ UNCHANGED <<ring, got>>

\* if(KEYQ_FULL(keyq)) return;
PutTest ==
  /\ put.pc = "test"
  /\ put' = [put EXCEPT !.pc = IF FULL THEN "idle" ELSE "store"]
  /\ UNCHANGED <<ring, get, got>>

PutStore_Ahead == \* mutant: KEYQ_PUTCH stores behind the increment
  /\ put.pc = "store"
  /\ buf' = [buf EXCEPT ![Inc(head)] = put.c]
  /\ put' = [put EXCEPT !.pc = "advance"]
  /\ UNCHANGED <<head, tail, get, got>>

\* KEYQ_PUTCH: buf[head] = c, then KEYQ_INC(head).
PutStore ==
  /\ put.pc = "store"
  /\ buf' = [buf EXCEPT ![head] = put.c]
  /\ put' = [put EXCEPT !.pc = "advance"]
  /\ UNCHANGED <<head, tail, get, got>>

PutAdvance ==
  /\ put.pc = "advance"
  /\ head' = Inc(head)
  /\ put' = [put EXCEPT !.pc = "idle"]
  /\ UNCHANGED <<buf, tail, get, got>>

-----------------------------------------------------------------------------
\* The reader executes while no keyboard handler has interrupted it.
GetExecutes(pc) == get.pc = pc /\ (put.pc = "idle" \/ put.site = "other")

GetGoto(pc) == get' = [get EXCEPT !.pc = pc]

\* get_key and get_key_async are called.
GetCall ==
  /\ GetExecutes("idle")
  /\ \E pc \in {"test", "poll"} : GetGoto(pc)
  /\ UNCHANGED <<ring, put, got>>

\* while(KEYQ_EMPTY(keyq)) of get_key
GetTest ==
  /\ GetExecutes("test")
  /\ GetGoto(IF EMPTY THEN "halt" ELSE "load")
  /\ UNCHANGED <<ring, put, got>>

\* hlt: a key that was put since the test does not keep the CPU awake.
GetHalt ==
  /\ GetExecutes("halt")
  /\ GetGoto("asleep")
  /\ UNCHANGED <<ring, put, got>>

Tick_None == FALSE /\ UNCHANGED vars \* mutant: ice_do_timer does not write TMICT

\* The timer, which ice_do_timer re-arms on every tick, interrupts the hlt.
Tick ==
  /\ GetExecutes("asleep")
  /\ GetGoto("test")
  /\ UNCHANGED <<ring, put, got>>

\* get_key_async returns 0 when there is no key.
GetPoll ==
  /\ GetExecutes("poll")
  /\ IF EMPTY THEN GetGoto("idle") /\ got' = 0
              ELSE GetGoto("load") /\ UNCHANGED got
  /\ UNCHANGED <<ring, put>>

\* KEYQ_GETCH: c = buf[tail], then KEYQ_INC(tail).
GetLoad ==
  /\ GetExecutes("load")
  /\ get' = [pc |-> "advance", c |-> buf[tail]]
  /\ UNCHANGED <<ring, put, got>>

GetAdvance ==
  /\ GetExecutes("advance")
  /\ tail' = Inc(tail)
  /\ got' = get.c
  /\ GetGoto("idle")
  /\ UNCHANGED <<buf, head, put>>

-----------------------------------------------------------------------------
Init ==
  /\ buf = [i \in Slots |-> 0]
  /\ head = 0
  /\ tail = 0
  /\ put = [pc |-> "idle", c |-> 0, site |-> "same"]
  /\ get = [pc |-> "idle", c |-> 0]
  /\ got = 0

PutStep == PutTest \/ PutStore \/ PutAdvance
GetStep == GetTest \/ GetHalt \/ GetPoll \/ GetLoad \/ GetAdvance

Next ==
  \/ \E c \in Keys, site \in {"same", "other"} : PutCall(c, site)
  \/ PutStep
  \/ GetCall \/ GetStep \/ Tick

Spec == Init /\ [][Next]_vars

\* A handler runs to its end; the reader executes instructions between two
\* interrupts; the timer goes on ticking.  Nobody need call put_key or get_key.
Fairness == WF_vars(PutStep) /\ SF_vars(GetStep) /\ SF_vars(Tick)

FairSpec == Spec /\ Fairness

-----------------------------------------------------------------------------
Chars == Keys \cup {0}

TypeOK ==
  /\ buf \in [Slots -> Chars]
  /\ head \in Slots /\ tail \in Slots
  /\ put \in [pc : {"idle", "test", "store", "advance"}, c : Chars, site : {"same", "other"}]
  /\ get \in [pc : {"idle", "test", "halt", "asleep", "poll", "load", "advance"}, c : Chars]
  /\ got \in Chars

\* Between the two steps of KEYQ_GETCH the slot it has read keeps its key and
\* between those of KEYQ_PUTCH the slot it writes is no unread one: the writer,
\* at any place, never laps the reader.
NoLap ==
  /\ get.pc = "load" => head # tail
  /\ get.pc = "advance" => head # tail /\ get.c = buf[tail]
  /\ put.pc \in {"store", "advance"} => Inc(head) # tail

\* put_key gives up a key only when all slots but one hold unread keys.
DropOnlyWhenFull ==
  [][put.pc = "test" /\ put'.pc = "idle" => Len(Contents) = KEYQ_MAX - 1]_vars

\* get_key returns when there is a key, although the key may come between its
\* test and its hlt: the next tick of the debugger's own timer ends the hlt.
KeyWakesReader == (get.pc # "idle" /\ ~EMPTY) ~> (get.pc = "idle")

Fifo == INSTANCE KeyFifo WITH queue <- Contents, Capacity <- KEYQ_MAX - 1

\* The ring implements the bounded queue: every step of writer and reader, in
\* any interleaving, is a Put, a Get, an empty poll or no step of it.
ImplementsFifo == Fifo!Spec
=============================================================================
