------------------------------- MODULE Console -------------------------------
(***************************************************************************)
(* Keyboard input, end to end: the keyboard and the xHCI controller (the   *)
(* environment), the driver's rings (kernel/src/xhci.rs), the polling      *)
(* thread (main.rs xhci_poll_thread), the line discipline with the secure  *)
(* attention key (console.rs), and a reader of fd 0.                       *)
(*                                                                         *)
(* One TRB is armed at a time, on one DMA buffer.  A slot of a ring is its *)
(* cycle bit (an event's slot its type too); the last slot of a producer   *)
(* ring is the Link TRB.  A report is the keys held, with the modifiers;   *)
(* it adds at most one key to the report before it.                        *)
(***************************************************************************)
EXTENDS Naturals, Sequences, FiniteSets, SequencesExt

CONSTANTS
    RING_TRBS,      \* slots of a ring
    MaxBatch,       \* reports the polling thread takes per pass
    MaxReports,     \* changes of the keyboard's state
    MaxPend,        \* reports the keyboard buffers
    MaxHeld,        \* keys held at once
    MaxPortEvents   \* events that are not transfers

VARIABLES
    mods, held, pend,   \* the keyboard: modifiers, keys down, reports to send
    kbd, hw,            \* the transfer ring with the driver's and the controller's place
    ev, hwev,           \* the event ring likewise
    buf,                \* the report in the DMA buffer
    batch,              \* reports the polling thread has taken
    PREV, QUEUE, LINE_LEN, SAK_ACTIVE, SAK_BUF,
    waking,             \* feed_report has pushed and not yet woken
    asleep, taken,      \* the reader: in wait_for_input; the bytes it has read
    typed, got,         \* keys pressed, and handled, with where they belong or went
    sent, ports         \* changes and port events so far

user == <<mods, held, pend, typed, sent>>
xfer == <<kbd, hw>>
event == <<ev, hwev, ports>>
line == <<PREV, QUEUE, LINE_LEN, SAK_ACTIVE, SAK_BUF, got, waking>>
vars == <<user, xfer, event, buf, batch, line, asleep, taken>>

Keys == {"a", "bs", "nl", "del"}
Mods == {"none", "ctrl_alt"}
Report == [mods : Mods, keys : Seq(Keys)]

----------------------------------------------------------------------------
(* Rings. *)

\* Ring::push: the cycle bit, the step to the Link TRB, its cycle bit, the toggle.
push(r) ==
    LET s == [r.slots EXCEPT ![r.idx] = r.cycle] IN
    IF r.idx + 1 = RING_TRBS - 1
    THEN [slots |-> [s EXCEPT ![RING_TRBS - 1] = r.cycle], idx |-> 0, cycle |-> 1 - r.cycle]
    ELSE [slots |-> s, idx |-> r.idx + 1, cycle |-> r.cycle]

\* The place after place p of a ring without a Link TRB.
After(p) ==
    IF p.idx + 1 = RING_TRBS
    THEN [p EXCEPT !.idx = 0, !.cycle = 1 - p.cycle]
    ELSE [p EXCEPT !.idx = p.idx + 1]

\* The controller's consumer place, past the Link TRB when it is there.
AtTrb ==
    IF hw.idx = RING_TRBS - 1 /\ kbd.slots[hw.idx] = hw.cycle
    THEN [idx |-> 0, cycle |-> 1 - hw.cycle]
    ELSE hw
Armed == AtTrb.idx < RING_TRBS - 1 /\ kbd.slots[AtTrb.idx] = AtTrb.cycle

\* EventRing::poll: the slot at the driver's place is new when its cycle bit says so.
Pending == ev.slots[ev.idx].cycle = ev.cycle
Post(type) ==
    /\ ev' = [ev EXCEPT !.slots[hwev.idx] = [cycle |-> hwev.cycle, type |-> type]]
    /\ hwev' = After(hwev)

\* After xhci::init: one TRB is armed, nothing has happened.
Init ==
    /\ mods = "none" /\ held = <<>> /\ pend = <<>>
    /\ kbd = push([slots |-> [i \in 0..RING_TRBS-1 |-> IF i = RING_TRBS - 1 THEN 1 ELSE 0],
                   idx |-> 0, cycle |-> 1])
    /\ hw = [idx |-> 0, cycle |-> 1]
    /\ ev = [slots |-> [i \in 0..RING_TRBS-1 |-> [cycle |-> 0, type |-> "none"]],
             idx |-> 0, cycle |-> 1]
    /\ hwev = [idx |-> 0, cycle |-> 1]
    /\ buf = [mods |-> "none", keys |-> <<>>] /\ batch = <<>>
    /\ PREV = <<>> /\ QUEUE = <<>> /\ LINE_LEN = 0
    /\ SAK_ACTIVE = FALSE /\ SAK_BUF = <<>> /\ waking = FALSE
    /\ asleep = FALSE /\ taken = <<>>
    /\ typed = <<>> /\ got = <<>> /\ sent = 0 /\ ports = 0

----------------------------------------------------------------------------
(* The user and the hardware (environment). *)

\* The user is in an attention sequence: after Ctrl+Alt+Del, before Enter.
Attention(keys) ==
    \E i \in 1..Len(keys) :
        /\ keys[i] = <<"sak", "del">>
        /\ \A j \in i+1..Len(keys) : keys[j] # <<"sak", "nl">>
Begins(k) == k = "del" /\ mods = "ctrl_alt"

\* The keyboard queues a report of its new state.
Send ==
    /\ sent < MaxReports /\ Len(pend) < MaxPend
    /\ sent' = sent + 1
    /\ pend' = Append(pend, [mods |-> mods', keys |-> held'])

PressKey(k) ==
    /\ Len(held) < MaxHeld /\ ~Contains(held, k)
    /\ held' = Append(held, k) /\ UNCHANGED mods
    /\ Send
    /\ typed' = IF k = "del" /\ (Attention(typed) \/ ~Begins(k)) THEN typed
                ELSE Append(typed, <<IF Attention(typed) \/ Begins(k) THEN "sak" ELSE "queue", k>>)
    /\ UNCHANGED <<xfer, event, buf, batch, line, asleep, taken>>

ReleaseKey(k) ==
    /\ Contains(held, k)
    /\ held' = SelectSeq(held, LAMBDA x : x # k) /\ UNCHANGED mods
    /\ Send
    /\ UNCHANGED <<typed, xfer, event, buf, batch, line, asleep, taken>>

ChangeMods ==
    /\ mods' \in Mods \ {mods} /\ UNCHANGED held
    /\ Send
    /\ UNCHANGED <<typed, xfer, event, buf, batch, line, asleep, taken>>

\* The controller fills the buffer of the TRB it is at, and posts a transfer event.
Transfer ==
    /\ pend # <<>> /\ Armed
    /\ buf' = Head(pend) /\ pend' = Tail(pend)
    /\ hw' = [idx |-> AtTrb.idx + 1, cycle |-> AtTrb.cycle]
    /\ Post("transfer")
    /\ UNCHANGED <<mods, held, typed, sent, kbd, ports, batch, line, asleep, taken>>

PortEvent ==
    /\ ports < MaxPortEvents /\ ports' = ports + 1
    /\ Post("port")
    /\ UNCHANGED <<user, xfer, buf, batch, line, asleep, taken>>

----------------------------------------------------------------------------
(* The driver: poll_keyboard, in the polling thread. *)

\* A transfer event: copy the buffer, arm the next TRB.  Any other event ends the
\* pass (the thread then feeds what it has and polls again).
PollKeyboard ==
    /\ Pending /\ Len(batch) < MaxBatch /\ ~waking
    /\ ev' = After(ev)
    /\ IF ev.slots[ev.idx].type = "transfer"
       THEN batch' = Append(batch, buf) /\ kbd' = push(kbd)
       ELSE UNCHANGED <<batch, kbd>>
    /\ UNCHANGED <<user, hw, hwev, ports, buf, line, asleep, taken>>

----------------------------------------------------------------------------
(* The line discipline. *)

ascii(k) == IF k = "del" THEN 0 ELSE 1

\* The keys that act: newly down, and with a character.
NewOrHeld(keys) == SelectSeq(keys, LAMBDA k : ascii(k) # 0)
NewKeys(keys) == SelectSeq(keys, LAMBDA k : ~Contains(PREV, k) /\ ascii(k) # 0)

DropLast(s) == IF s = <<>> THEN s ELSE Front(s)

\* Mistake: a backspace erases whatever is last.
EditAcrossLines(k) ==
    CASE k = "bs" -> /\ QUEUE' = DropLast(QUEUE)
                     /\ LINE_LEN' = IF LINE_LEN > 0 THEN LINE_LEN - 1 ELSE 0
      [] k = "nl" -> QUEUE' = Append(QUEUE, k) /\ LINE_LEN' = 0
      [] OTHER -> QUEUE' = Append(QUEUE, k) /\ LINE_LEN' = LINE_LEN + 1

\* A key for the readers: backspace takes the last byte back while the line has any.
Edit(k) ==
    CASE k = "bs" /\ LINE_LEN = 0 -> UNCHANGED <<QUEUE, LINE_LEN>>
      [] k = "bs" /\ LINE_LEN > 0 -> QUEUE' = DropLast(QUEUE) /\ LINE_LEN' = LINE_LEN - 1
      [] k = "nl" -> QUEUE' = Append(QUEUE, k) /\ LINE_LEN' = 0
      [] OTHER -> QUEUE' = Append(QUEUE, k) /\ LINE_LEN' = LINE_LEN + 1

FeedNormal(keys) ==
    /\ IF NewKeys(keys) = <<>>
       THEN UNCHANGED <<QUEUE, LINE_LEN, got, waking>>
       ELSE LET k == Head(NewKeys(keys)) IN
            Edit(k) /\ got' = Append(got, <<"queue", k>>) /\ waking' = (k # "bs")
    /\ UNCHANGED <<SAK_ACTIVE, SAK_BUF>>

\* sak_begin.
BeginSak ==
    /\ SAK_ACTIVE' = TRUE /\ SAK_BUF' = <<>>
    /\ got' = Append(got, <<"sak", "del">>)
    /\ UNCHANGED <<QUEUE, LINE_LEN, waking>>

\* sak_feed, and sak_finish on Enter.
FeedSak(keys) ==
    /\ IF NewKeys(keys) = <<>>
       THEN UNCHANGED <<SAK_ACTIVE, SAK_BUF, got>>
       ELSE LET k == Head(NewKeys(keys)) IN
            /\ SAK_ACTIVE' = (k # "nl")
            /\ SAK_BUF' = CASE k = "bs" -> DropLast(SAK_BUF)
                            [] k = "nl" -> <<>>
                            [] OTHER -> Append(SAK_BUF, k)
            /\ got' = Append(got, <<"sak", k>>)
    /\ UNCHANGED <<QUEUE, LINE_LEN, waking>>

IsAttention(r) == r.mods = "ctrl_alt" /\ Contains(r.keys, "del") /\ ~Contains(PREV, "del")

\* feed_report, up to the release of PREV.
FeedReport ==
    /\ batch # <<>> /\ ~waking
    /\ batch' = Tail(batch)
    /\ PREV' = Head(batch).keys
    /\ CASE ~SAK_ACTIVE /\ IsAttention(Head(batch)) -> BeginSak
         [] SAK_ACTIVE -> FeedSak(Head(batch).keys)
         [] OTHER -> FeedNormal(Head(batch).keys)
    /\ UNCHANGED <<user, xfer, event, buf, asleep, taken>>

\* INPUT_WQ.wake_all, at its end.
WakeAll ==
    /\ waking /\ waking' = FALSE
    /\ asleep' = FALSE
    /\ UNCHANGED <<user, xfer, event, buf, batch, PREV, QUEUE, LINE_LEN, SAK_ACTIVE, SAK_BUF, got, taken>>

\* One byte.
read ==
    /\ QUEUE # <<>>
    /\ taken' = Append(taken, Head(QUEUE))
    /\ QUEUE' = Tail(QUEUE) /\ UNCHANGED asleep

\* INPUT_WQ.wait_if tests the queue and joins the waiters in one step (Waits).
wait_for_input == QUEUE = <<>> /\ asleep' = TRUE /\ UNCHANGED <<QUEUE, taken>>

\* KeyboardFile::read, a turn of its loop.
Read ==
    /\ ~asleep
    /\ read \/ wait_for_input
    /\ UNCHANGED <<user, xfer, event, buf, batch, PREV, LINE_LEN, SAK_ACTIVE, SAK_BUF, got, waking>>

Next ==
    \/ \E k \in Keys : PressKey(k) \/ ReleaseKey(k)
    \/ ChangeMods \/ Transfer \/ PortEvent
    \/ PollKeyboard \/ FeedReport \/ WakeAll \/ Read

Spec == Init /\ [][Next]_vars

----------------------------------------------------------------------------
(* Properties. *)

NewLines(s) == Len(SelectSeq(s, LAMBDA k : k = "nl"))
Undone == pend # <<>> \/ batch # <<>> \/ ~Armed

\* Every key pressed is handled once, in order and where the user meant it: between
\* Ctrl+Alt+Del and Enter only by the attention path, otherwise only by the queue
\* (feed_report, sak_feed, PREV); none is missing once the keyboard has no report
\* left and the driver is waiting for one.
KeysDelivered ==
    /\ IsPrefix(got, typed)
    /\ Undone \/ got = typed

\* A line that Enter has completed stays: backspace takes back at most the unread
\* rest of the current line, however reads interleave (LINE_LEN is not reduced by
\* console::read); and the DMA buffer has one user, a TRB armed for the controller
\* or a transfer event that the driver has not taken (arm_kbd after the copy).
LinesKept ==
    /\ NewLines(taken \o QUEUE) = Len(SelectSeq(got, LAMBDA g : g = <<"queue", "nl">>))
    /\ Armed # \E i \in DOMAIN ev.slots :
                 /\ ev.slots[i].type = "transfer"
                 /\ ev.slots[i].cycle = IF i >= ev.idx THEN ev.cycle ELSE 1 - ev.cycle

=============================================================================
