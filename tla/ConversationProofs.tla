------------------------- MODULE ConversationProofs -------------------------
(* However the turns of one user overlap, what a session will write to the  *)
(* conversation_states row is known while it is at work: the columns it has *)
(* flushed or changed, and for those the value in its memory.  The          *)
(* invariant says of each turn which drafts that can be (one of its own     *)
(* that nobody has seen, or none), so a commit cannot tear the row, and a   *)
(* webhook turn, which keeps the write lock from its read to its commit,    *)
(* runs only what the row still offers.  Without the web chat and tools     *)
(* that commit midway every turn sees the row it replaces, and the turns    *)
(* are steps of DraftLifecycle.                                             *)
EXTENDS Conversation, TLAPS

-----------------------------------------------------------------------------
(* The inductive invariant *)

\* A turn is given by its place p, its base b, its row in memory m, the
\* columns w it has flushed and its work k.  Its next commit writes column c:
Writes(b, m, w, c) == c \in w \/ m[c] # b[c]

\* Nothing is in memory before the row is read.
Fresh(p, b, m, w, k) ==
  p \in {"idle", "arrived"} => b = EmptyRow /\ m = EmptyRow /\ w = {} /\ k = NoWork

\* A webhook turn reads the row under the lock.
Loaded(t, p, b, m, w, k) ==
  p = "dispatch" =>
    /\ t \in Chats /\ lock = t /\ w = {} /\ k = NoWork /\ b = row
    /\ m.draft = row.draft /\ m.last = row.last
    /\ m.state = IF row.state = "NEW" THEN "IDLE" ELSE row.state

\* Before the tool runs; a webhook turn still sees the committed row.
Running(t, p, b, m, w, k) ==
  p \in {"run", "replace"} =>
    /\ w = {} /\ m.draft = b.draft /\ m.state = b.state /\ m.last = b.last
    /\ m.state \in Confirmable /\ m.draft \in Drafts
    /\ k.todo \in offered /\ k.ran = NoDraft /\ k.undid = NoDraft /\ k.dropped = NoDraft
    /\ t \in Chats => lock = t /\ b = row /\ k.todo = row.draft
    /\ p = "replace" => t \in Chats

\* No draft is left in memory unless the row it read had a forgotten one.
Idling(t, p, b, m, w, k) ==
  p = "idle_handler" =>
    /\ t \in Chats /\ w = {} /\ m.state = "IDLE" /\ b.state # "MODE" /\ k.undid = NoDraft
    /\ m.draft = b.draft \/ (b.state \in Confirmable /\ m.draft = NoDraft)

NewDraft(b, m, w) == Writes(b, m, w, "draft") /\ m.draft \in Drafts

\* A turn that asks for a confirmation writes the draft with the state; one that
\* removes the draft writes the state too, or has read it under the lock it
\* still holds; a draft it adds is in no other turn's memory.
Writing(t, b, m, w) ==
  /\ (Writes(b, m, w, "state") /\ m.state \in Confirmable) => NewDraft(b, m, w)
  /\ (Writes(b, m, w, "draft") /\ m.draft \notin Drafts) =>
       /\ m.state \notin Confirmable
       /\ Writes(b, m, w, "state") \/ (lock = t /\ row.state \notin Confirmable)
  /\ NewDraft(b, m, w) => /\ m.draft \in proposed \ offered
                          /\ \A u \in Turns \ {t} : mem[u].draft # m.draft
  /\ (m.draft \in Drafts /\ ~Writes(b, m, w, "draft")) => m.draft \in offered
  /\ b.draft \in Drafts => b.draft \in offered

\* What a webhook turn ran is what the row still offers, and so is what a turn
\* dropped; a turn overwrites what it has run or dropped.
Working(t, p, b, m, w, k) ==
  /\ p \notin {"run", "replace"} => k.todo = NoDraft
  /\ (t \in Chats /\ k.ran # NoDraft) =>
       /\ lock = t /\ row.state \in Confirmable /\ row.draft = k.ran
       /\ Writes(b, m, w, "draft") /\ m.draft # k.ran
  /\ k.dropped # NoDraft =>
       /\ lock = t /\ row.draft = k.dropped /\ k.ran = NoDraft
       /\ k.dropped \in offered /\ Writes(b, m, w, "draft") /\ m.draft # k.dropped

Turn(t, p, b, m, w, k) ==
  /\ Fresh(p, b, m, w, k) /\ Loaded(t, p, b, m, w, k) /\ Running(t, p, b, m, w, k)
  /\ Idling(t, p, b, m, w, k) /\ Writing(t, b, m, w) /\ Working(t, p, b, m, w, k)

TurnsSound == \A t \in Turns : Turn(t, pc[t], base[t], mem[t], written[t], work[t])

\* A cancelled draft is not in the row, and auto-confirm never gets to run one:
\* the time in the row has no offset and that of the task has.
RowSound == /\ ConfirmableHasDraft
            /\ row.draft \in Drafts => row.draft \in offered
            /\ cancelled \subseteq offered /\ row.draft \notin cancelled
            /\ pc[Timer] = "idle"

ConvInv == TypeOK /\ RowSound /\ TurnsSound

-----------------------------------------------------------------------------
(* Types *)

Places == {"idle", "arrived", "dispatch", "run", "replace", "idle_handler", "drafting", "closing"}

LEMMA EmptyTyped ==
  /\ EmptyRow \in Rows /\ EmptyRow.state = "NEW" /\ EmptyRow.draft = NoDraft
  /\ EmptyRow.ts = "none" /\ EmptyRow.last = NoDraft
  /\ NoWork \in Works /\ NoWork.todo = NoDraft /\ NoWork.ran = NoDraft
  /\ NoWork.undid = NoDraft /\ NoWork.dropped = NoDraft
BY DEF EmptyRow, NoWork, Rows, Works

LEMMA DraftsDiffer ==
  NoDraft \notin Drafts /\ JoinStep \notin Drafts /\ NoDraft # JoinStep
  /\ Timer \notin Chats \cup Webs /\ Nobody \notin Turns /\ Chats \cap Webs = {}
BY ConversationAssumption DEF Turns

LEMMA TurnTyped ==
  ASSUME ConvInv, NEW t \in Turns
  PROVE  /\ pc[t] \in Places /\ base[t] \in Rows /\ mem[t] \in Rows
         /\ written[t] \in SUBSET Columns /\ work[t] \in Works
         /\ Turn(t, pc[t], base[t], mem[t], written[t], work[t])
         /\ mem[t].draft \in Drafts => mem[t].draft \in proposed
BY DEF ConvInv, TypeOK, TurnsSound, Turn, Writing, NewDraft, Places

\* What a commit of columns of r leaves in the row.
LEMMA MergeTyped ==
  ASSUME NEW r \in Rows, NEW columns, row \in Rows
  PROVE  /\ Merge(r, columns) \in Rows /\ Merge(r, columns).ts # "aware"
         /\ Merge(r, columns).state = IF "state" \in columns THEN r.state ELSE row.state
         /\ Merge(r, columns).draft = IF "draft" \in columns THEN r.draft ELSE row.draft
         /\ Merge(r, columns).last = IF "last" \in columns THEN r.last ELSE row.last
BY ZenonT(40) DEF Merge, Rows, Columns, Stored

\* A step of turn t: the others are as they were, and what they know of the row,
\* of the lock and of drafts holds as long as t leaves it to them.
LEMMA OthersSound ==
  ASSUME ConvInv, NEW t \in Turns, NEW m \in Rows,
         mem' = [mem EXCEPT ![t] = m],
         \A u \in Turns \ {t} : /\ pc'[u] = pc[u] /\ base'[u] = base[u]
                                /\ written'[u] = written[u] /\ work'[u] = work[u]
                                /\ lock = u => lock' = u /\ row' = row,
         offered \subseteq offered', offered' \subseteq offered \cup {mem[t].draft},
         proposed \subseteq proposed',
         m.draft \in Drafts => m.draft = mem[t].draft \/ m.draft \in offered \/ m.draft \notin proposed
  PROVE  \A u \in Turns \ {t} : Turn(u, pc[u], base[u], mem[u], written[u], work[u])'
<1> SUFFICES ASSUME NEW u \in Turns, u # t
             PROVE  Turn(u, pc[u], base[u], mem[u], written[u], work[u])'
  OBVIOUS
<1>1. PICK p \in Places, b \in Rows, n \in Rows, w \in SUBSET Columns, k \in Works :
         /\ p = pc[u] /\ b = base[u] /\ n = mem[u] /\ w = written[u] /\ k = work[u]
         /\ Turn(u, p, b, n, w, k)
         /\ n.draft \in Drafts => n.draft \in proposed
  BY TurnTyped
<1>2. /\ pc'[u] = p /\ base'[u] = b /\ mem'[u] = n /\ written'[u] = w /\ work'[u] = k
      /\ mem'[t] = m /\ \A v \in Turns \ {t} : mem'[v] = mem[v]
  BY <1>1 DEF ConvInv, TypeOK
<1>3. Fresh(p, b, n, w, k)' /\ Loaded(u, p, b, n, w, k)' /\ Running(u, p, b, n, w, k)'
      /\ Idling(u, p, b, n, w, k)'
  BY <1>1 DEF Turn, Fresh, Loaded, Running, Idling
<1>4. Working(u, p, b, n, w, k)'
  BY <1>1 DEF Turn, Working, Writes
<1>5. Writing(u, b, n, w)'
  <2>1. NewDraft(b, n, w)' <=> NewDraft(b, n, w)
    BY DEF NewDraft, Writes
  <2>2. \A c : Writes(b, n, w, c)' <=> Writes(b, n, w, c)
    BY DEF Writes
  <2>3. ASSUME NewDraft(b, n, w)
        PROVE  /\ n.draft \in proposed' \ offered'
               /\ \A v \in Turns \ {u} : mem'[v].draft # n.draft
    <3>1. /\ n.draft \in proposed \ offered /\ n.draft \in Drafts
          /\ \A v \in Turns \ {u} : mem[v].draft # n.draft
      BY <1>1, <2>3 DEF Turn, Writing, NewDraft
    <3>2. m.draft # n.draft
      BY <3>1
    <3>3. QED BY <1>2, <3>1, <3>2
  <2>4. Writing(u, b, n, w)
    BY <1>1 DEF Turn
  <2>5. QED BY <2>1, <2>2, <2>3, <2>4 DEF Writing
<1>6. QED BY <1>2, <1>3, <1>4, <1>5 DEF Turn

LEMMA TurnStep ==
  ASSUME ConvInv, NEW t \in Turns, t # Timer,
         NEW p, NEW b \in Rows, NEW m \in Rows, NEW w \in SUBSET Columns, NEW k \in Works,
         pc' = [pc EXCEPT ![t] = p], base' = [base EXCEPT ![t] = b],
         mem' = [mem EXCEPT ![t] = m], written' = [written EXCEPT ![t] = w],
         work' = [work EXCEPT ![t] = k],
         TypeOK', ConfirmableHasDraft', row'.draft \in Drafts => row'.draft \in offered',
         cancelled' \subseteq offered', row'.draft \notin cancelled',
         \A u \in Turns \ {t} : lock = u => lock' = u /\ row' = row,
         offered \subseteq offered', offered' \subseteq offered \cup {mem[t].draft},
         proposed \subseteq proposed',
         m.draft \in Drafts => m.draft = mem[t].draft \/ m.draft \in offered \/ m.draft \notin proposed,
         Turn(t, p, b, m, w, k)'
  PROVE  ConvInv'
<1>1. \A u \in Turns \ {t} : Turn(u, pc[u], base[u], mem[u], written[u], work[u])'
  <2>1. \A u \in Turns \ {t} : /\ pc'[u] = pc[u] /\ base'[u] = base[u]
                               /\ written'[u] = written[u] /\ work'[u] = work[u]
    BY DEF ConvInv, TypeOK
  <2>2. QED BY <2>1, OthersSound
<1>2. pc'[t] = p /\ base'[t] = b /\ mem'[t] = m /\ written'[t] = w /\ work'[t] = k
  BY DEF ConvInv, TypeOK
<1>3. Turn(t, pc[t], base[t], mem[t], written[t], work[t])'
  BY <1>2 DEF Turn, Fresh, Loaded, Running, Idling, Writing, NewDraft, Working, Writes
<1>4. TurnsSound'
  BY <1>1, <1>3 DEF TurnsSound
<1>5. RowSound'
  <2>1. pc'[Timer] = "idle"
    BY DEF ConvInv, RowSound, TypeOK, Turns
  <2>2. QED BY <2>1 DEF RowSound
<1>6. QED BY <1>4, <1>5 DEF ConvInv

-----------------------------------------------------------------------------
(* Steps that leave the row alone *)

\* A turn as it stands.
LEMMA View ==
  ASSUME ConvInv, NEW t \in Turns
  PROVE  \E b \in Rows, m \in Rows, w \in SUBSET Columns, k \in Works :
           /\ b = base[t] /\ m = mem[t] /\ w = written[t] /\ k = work[t]
           /\ Turn(t, pc[t], b, m, w, k)
           /\ base = [base EXCEPT ![t] = b] /\ mem = [mem EXCEPT ![t] = m]
           /\ written = [written EXCEPT ![t] = w] /\ work = [work EXCEPT ![t] = k]
           /\ m.draft \in Drafts => m.draft \in proposed
           /\ row \in Rows
           /\ row.draft \in Drafts => row.draft \in offered
           /\ offered \subseteq proposed /\ proposed \subseteq Drafts
           /\ ConfirmableHasDraft /\ pc[Timer] = "idle"
BY TurnTyped DEF ConvInv, TypeOK, RowSound

LEMMA QuietStep ==
  ASSUME ConvInv, NEW t \in Turns, t # Timer,
         NEW p \in Places, NEW b \in Rows, NEW m \in Rows, NEW w \in SUBSET Columns,
         NEW k \in Works,
         pc' = [pc EXCEPT ![t] = p], base' = [base EXCEPT ![t] = b],
         mem' = [mem EXCEPT ![t] = m], written' = [written EXCEPT ![t] = w],
         work' = [work EXCEPT ![t] = k],
         UNCHANGED <<row, offered, undone, cancelled, asked>>,
         runs' \in [Drafts -> Nat], latest' \in Drafts \cup {NoDraft},
         lock' \in Turns \cup {Nobody}, \A u \in Turns \ {t} : lock = u => lock' = u,
         timers' \in Nat, messages' \in Nat, faults' \in Nat,
         proposed \subseteq proposed', proposed' \subseteq Drafts,
         m.draft \in Drafts => m.draft = mem[t].draft \/ m.draft \in offered \/ m.draft \notin proposed,
         Turn(t, p, b, m, w, k)'
  PROVE  ConvInv'
<1>1. TypeOK'
  <2>1. pc' \in [Turns -> Places]
    BY DEF ConvInv, TypeOK, Places
  <2>2. /\ base' \in [Turns -> Rows] /\ mem' \in [Turns -> Rows]
        /\ written' \in [Turns -> SUBSET Columns] /\ work' \in [Turns -> Works]
    BY DEF ConvInv, TypeOK
  <2>3. QED BY <2>1, <2>2 DEF ConvInv, TypeOK, Places
<1>2. /\ ConfirmableHasDraft'
      /\ row'.draft \in Drafts => row'.draft \in offered'
      /\ cancelled' \subseteq offered' /\ row'.draft \notin cancelled'
  BY DEF ConvInv, RowSound, ConfirmableHasDraft
<1>3. QED BY <1>1, <1>2, TurnStep

\* The same with the hypotheses about the step under a name.
Quietly(t, p, b, m, w, k) ==
    /\ pc' = [pc EXCEPT ![t] = p] /\ base' = [base EXCEPT ![t] = b]
    /\ mem' = [mem EXCEPT ![t] = m] /\ written' = [written EXCEPT ![t] = w]
    /\ work' = [work EXCEPT ![t] = k] /\ UNCHANGED <<row, offered, undone, cancelled, asked>>
    /\ runs' \in [Drafts -> Nat] /\ latest' \in Drafts \cup {NoDraft}
    /\ lock' \in Turns \cup {Nobody} /\ \A u \in Turns \ {t} : lock = u => lock' = u
    /\ timers' \in Nat /\ messages' \in Nat /\ faults' \in Nat
    /\ proposed \subseteq proposed' /\ proposed' \subseteq Drafts
    /\ m.draft \in Drafts => m.draft = mem[t].draft \/ m.draft \in offered \/ m.draft \notin proposed
    /\ Turn(t, p, b, m, w, k)'

LEMMA QuietlyStep ==
  ASSUME ConvInv, NEW t \in Turns, t # Timer, NEW p \in Places, NEW b \in Rows, NEW m \in Rows,
         NEW w \in SUBSET Columns, NEW k \in Works, Quietly(t, p, b, m, w, k)
  PROVE  ConvInv'
BY QuietStep DEF Quietly

LEMMA NoTurn ==
  ASSUME NEW t, NEW p \in {"idle", "arrived"}
  PROVE  /\ Turn(t, p, EmptyRow, EmptyRow, {}, NoWork)
         /\ Turn(t, p, EmptyRow, EmptyRow, {}, NoWork)'
<1>1. ~NewDraft(EmptyRow, EmptyRow, {}) /\ \A c : ~Writes(EmptyRow, EmptyRow, {}, c)
  BY DEF NewDraft, Writes
<1>2. EmptyRow.draft \notin Drafts
  BY EmptyTyped, DraftsDiffer
<1>3. QED BY <1>1, <1>2, EmptyTyped
         DEF Turn, Fresh, Loaded, Running, Idling, Writing, Working, NewDraft

\* A turn that ends without a commit.
LEMMA EndStep ==
  ASSUME ConvInv, NEW t \in Turns, t # Timer, EndOfTurn(t),
         UNCHANGED <<row, offered, undone, cancelled, asked, timers, proposed, latest, messages>>,
         runs' \in [Drafts -> Nat], faults' \in Nat,
         lock' \in Turns \cup {Nobody}, \A u \in Turns \ {t} : lock = u => lock' = u
  PROVE  ConvInv'
<1>1. /\ latest' \in Drafts \cup {NoDraft} /\ timers' \in Nat /\ messages' \in Nat
      /\ proposed \subseteq proposed' /\ proposed' \subseteq Drafts
  BY DEF ConvInv, TypeOK
<1>2. PICK m \in Rows : m = EmptyRow /\ m.draft \notin Drafts
  BY EmptyTyped, DraftsDiffer
<1>3. PICK k \in Works : k = NoWork
  BY EmptyTyped
<1>4. Turn(t, "idle", m, m, {}, k)'
  BY <1>2, <1>3, NoTurn
<1>5. "idle" \in Places /\ {} \in SUBSET Columns
  BY DEF Places
<1>6. QED BY <1>1, <1>2, <1>3, <1>4, <1>5, QuietStep DEF EndOfTurn

LEMMA ArriveStep == ASSUME ConvInv, NEW t \in Turns, Arrive(t) PROVE ConvInv'
<1>1. /\ t # Timer /\ pc[t] = "idle" /\ pc' = [pc EXCEPT ![t] = "arrived"]
      /\ messages' = messages + 1
      /\ UNCHANGED <<row, lock, base, mem, written, work, timers, proposed, offered, runs,
                     undone, cancelled, asked, latest, faults>>
  BY DEF Arrive, Goto, session, history
<1>0. PICK b \in Rows, m \in Rows, w \in SUBSET Columns, k \in Works :
        /\ Turn(t, pc[t], b, m, w, k)
        /\ base = [base EXCEPT ![t] = b] /\ mem = [mem EXCEPT ![t] = m]
        /\ written = [written EXCEPT ![t] = w] /\ work = [work EXCEPT ![t] = k]
  BY View
<1>2. b = EmptyRow /\ m = EmptyRow /\ w = {} /\ k = NoWork
  BY <1>0, <1>1 DEF Turn, Fresh
<1>3. m.draft \notin Drafts
  BY <1>2, EmptyTyped, DraftsDiffer
<1>4. Turn(t, "arrived", b, m, w, k)'
  BY <1>2, NoTurn
<1>5. /\ "arrived" \in Places /\ messages' \in Nat /\ faults' \in Nat /\ timers' \in Nat
      /\ runs' \in [Drafts -> Nat] /\ latest' \in Drafts \cup {NoDraft}
      /\ lock' \in Turns \cup {Nobody} /\ proposed' \subseteq Drafts
  BY <1>1 DEF Places, ConvInv, TypeOK
<1>6. /\ pc' = [pc EXCEPT ![t] = "arrived"] /\ base' = [base EXCEPT ![t] = b]
      /\ mem' = [mem EXCEPT ![t] = m] /\ written' = [written EXCEPT ![t] = w]
      /\ work' = [work EXCEPT ![t] = k]
      /\ UNCHANGED <<row, offered, undone, cancelled, asked, lock, proposed>> /\ t # Timer
  BY <1>0, <1>1
<1>7. QED BY <1>3, <1>4, <1>5, <1>6, QuietStep

LEMMA FailStep == ASSUME ConvInv, NEW t \in Turns, Fail(t) PROVE ConvInv'
<1>1. t # Timer
  BY DEF Fail, ConvInv, RowSound
<1>2. /\ runs' \in [Drafts -> Nat] /\ faults' \in Nat /\ lock' \in Turns \cup {Nobody}
      /\ \A u \in Turns \ {t} : lock = u => lock' = u
  BY DraftsDiffer DEF Fail, Unlock, history, ConvInv, TypeOK
<1>3. QED BY <1>1, <1>2, EndStep DEF Fail, history

LEMMA LockTimeoutStep == ASSUME ConvInv, NEW t \in Turns, LockTimeout(t) PROVE ConvInv'
<1>1. t # Timer
  BY DEF LockTimeout, ConvInv, RowSound
<1>2. /\ runs' \in [Drafts -> Nat] /\ faults' \in Nat /\ lock' \in Turns \cup {Nobody}
      /\ \A u \in Turns \ {t} : lock = u => lock' = u
  BY DEF LockTimeout, history, ConvInv, TypeOK
<1>3. QED BY <1>1, <1>2, EndStep DEF LockTimeout, history

LEMMA CrashStep == ASSUME ConvInv, Crash PROVE ConvInv'
<1>1. /\ lock' = Nobody /\ timers' = 0 /\ faults' = faults + 1
      /\ UNCHANGED <<row, proposed, offered, runs, undone, cancelled, asked, latest, messages>>
      /\ pc' \in [Turns -> {"idle"}] /\ base' \in [Turns -> {EmptyRow}]
      /\ mem' \in [Turns -> {EmptyRow}] /\ written' \in [Turns -> {{}}]
      /\ work' \in [Turns -> {NoWork}]
  BY DEF Crash, history
<1>2. TypeOK'
  BY <1>1, EmptyTyped DEF ConvInv, TypeOK
<1>3. RowSound'
  BY <1>1 DEF ConvInv, RowSound, ConfirmableHasDraft, Turns
<1>4. TurnsSound'
  <2> SUFFICES ASSUME NEW t \in Turns
               PROVE  Turn(t, pc[t], base[t], mem[t], written[t], work[t])'
    BY DEF TurnsSound
  <2>1. Turn(t, "idle", EmptyRow, EmptyRow, {}, NoWork)'
    BY NoTurn
  <2>2. /\ pc'[t] = "idle" /\ base'[t] = EmptyRow /\ mem'[t] = EmptyRow
        /\ written'[t] = {} /\ work'[t] = NoWork
    BY <1>1
  <2>3. QED BY <2>1, <2>2 DEF Turn, Fresh, Loaded, Running, Idling, Writing, NewDraft, Working, Writes
<1>5. QED BY <1>2, <1>3, <1>4 DEF ConvInv

\* The times never compare: the task that wakes up ends.
LEMMA TimerFiresStep == ASSUME ConvInv, TimerFires PROVE ConvInv'
<1>1. ~Comparable("aware", row.ts)
  BY DEF Comparable, ConvInv, TypeOK
<1>2. /\ UNCHANGED <<row, lock, pc, base, mem, written, work, proposed, offered, runs,
                     undone, cancelled, asked, latest, messages, faults>>
      /\ timers' = timers - 1 /\ timers > 0
  BY <1>1 DEF TimerFires, history
<1>3. TypeOK'
  <2>1. timers' \in Nat
    BY <1>2 DEF ConvInv, TypeOK
  <2>2. QED BY <1>2, <2>1 DEF ConvInv, TypeOK
<1>4. RowSound' /\ TurnsSound'
  BY <1>2 DEF ConvInv, RowSound, ConfirmableHasDraft, TurnsSound, Turn, Fresh, Loaded, Running,
              Idling, Writing, NewDraft, Working, Writes
<1>5. QED BY <1>3, <1>4 DEF ConvInv

\* The operations on a row in memory.
LEMMA Operations ==
  ASSUME NEW r \in Rows
  PROVE  /\ Reset(r) \in Rows /\ Reset(r).state = "IDLE" /\ Reset(r).draft = NoDraft
         /\ Reset(r).last = r.last
         /\ Discard(r) \in Rows /\ Discard(r).state = "IDLE" /\ Discard(r).draft = NoDraft
         /\ Discard(r).last = r.last
         /\ [r EXCEPT !.draft = JoinStep] \in Rows
         /\ [r EXCEPT !.draft = JoinStep].draft = JoinStep
         /\ [r EXCEPT !.draft = JoinStep].state = r.state
         /\ [r EXCEPT !.draft = JoinStep].last = r.last
         /\ [r EXCEPT !.last = NoDraft] \in Rows
         /\ [r EXCEPT !.last = NoDraft].draft = r.draft
         /\ [r EXCEPT !.last = NoDraft].state = r.state
         /\ [r EXCEPT !.last = NoDraft].last = NoDraft
BY DEF Reset, Discard, Rows, Confirmable

LEMMA StateTyped ==
  ASSUME NEW r \in Rows, NEW s \in {"IDLE", "ONBOARDING", "MODE"}
  PROVE  /\ [r EXCEPT !.state = s] \in Rows /\ [r EXCEPT !.state = s].state = s
         /\ [r EXCEPT !.state = s].draft = r.draft /\ [r EXCEPT !.state = s].last = r.last
BY DEF Rows, Confirmable

LEMMA ProposeTyped ==
  ASSUME NEW r \in Rows, NEW d \in Drafts, NEW auto \in BOOLEAN
  PROVE  /\ Propose(r, d, auto) \in Rows /\ Propose(r, d, auto).state \in Confirmable
         /\ Propose(r, d, auto).draft = d /\ Propose(r, d, auto).last = r.last
BY DEF Propose, Rows, Confirmable

LEMMA RememberTyped ==
  ASSUME NEW r \in Rows, NEW d \in Drafts
  PROVE  /\ Remember(r, d) \in Rows /\ Remember(r, d).state = r.state
         /\ Remember(r, d).draft = r.draft
         /\ Remember(r, d).last = IF d \in Tracked THEN d ELSE r.last
BY DEF Remember, Rows

\* The operations on the work of a turn.
LEMMA WorkTyped ==
  ASSUME NEW k \in Works, NEW d \in Drafts \cup {NoDraft}
  PROVE  /\ [k EXCEPT !.todo = d] \in Works /\ [k EXCEPT !.todo = d].todo = d
         /\ [k EXCEPT !.todo = d].ran = k.ran /\ [k EXCEPT !.todo = d].undid = k.undid
         /\ [k EXCEPT !.todo = d].dropped = k.dropped
         /\ [k EXCEPT !.dropped = d] \in Works /\ [k EXCEPT !.dropped = d].dropped = d
         /\ [k EXCEPT !.dropped = d].todo = k.todo /\ [k EXCEPT !.dropped = d].ran = k.ran
         /\ [k EXCEPT !.dropped = d].undid = k.undid
         /\ [k EXCEPT !.undid = d] \in Works /\ [k EXCEPT !.undid = d].undid = d
         /\ [k EXCEPT !.undid = d].todo = k.todo /\ [k EXCEPT !.undid = d].ran = k.ran
         /\ [k EXCEPT !.undid = d].dropped = k.dropped
         /\ [k EXCEPT !.todo = NoDraft, !.ran = d] \in Works
         /\ [k EXCEPT !.todo = NoDraft, !.ran = d].todo = NoDraft
         /\ [k EXCEPT !.todo = NoDraft, !.ran = d].ran = d
         /\ [k EXCEPT !.todo = NoDraft, !.ran = d].undid = k.undid
         /\ [k EXCEPT !.todo = NoDraft, !.ran = d].dropped = k.dropped
BY DEF Works

\* A quiet step that leaves everything but the turn and its lock.
LEMMA PlainStep ==
  ASSUME ConvInv, NEW t \in Turns, t # Timer,
         NEW p \in Places, NEW b \in Rows, NEW m \in Rows, NEW w \in SUBSET Columns,
         NEW k \in Works,
         pc' = [pc EXCEPT ![t] = p], base' = [base EXCEPT ![t] = b],
         mem' = [mem EXCEPT ![t] = m], written' = [written EXCEPT ![t] = w],
         work' = [work EXCEPT ![t] = k],
         UNCHANGED <<row, offered, undone, cancelled, asked, runs, latest, timers, proposed,
                     faults>>,
         messages' \in Nat, lock' = lock \/ (lock \in {t, Nobody} /\ lock' \in {t, Nobody}),
         m.draft \in Drafts => m.draft = mem[t].draft \/ m.draft \in offered,
         Turn(t, p, b, m, w, k)'
  PROVE  ConvInv'
<1>1. /\ runs' \in [Drafts -> Nat] /\ latest' \in Drafts \cup {NoDraft}
      /\ lock' \in Turns \cup {Nobody} /\ timers' \in Nat /\ faults' \in Nat
      /\ proposed \subseteq proposed' /\ proposed' \subseteq Drafts
  BY DEF ConvInv, TypeOK
<1>2. \A u \in Turns \ {t} : lock = u => lock' = u
  BY DraftsDiffer
<1>3. UNCHANGED <<row, offered, undone, cancelled, asked>>
  OBVIOUS
<1>4. m.draft \in Drafts => m.draft = mem[t].draft \/ m.draft \in offered \/ m.draft \notin proposed
  OBVIOUS
<1>5. QED BY <1>1, <1>2, <1>3, <1>4, QuietStep

LEMMA LoadStep == ASSUME ConvInv, NEW t \in Turns, Load(t) PROVE ConvInv'
<1>0. PICK b \in Rows, m \in Rows, w \in SUBSET Columns, k \in Works :
        /\ Turn(t, pc[t], b, m, w, k)
        /\ written = [written EXCEPT ![t] = w] /\ work = [work EXCEPT ![t] = k]
        /\ row \in Rows
        /\ row.draft \in Drafts => row.draft \in offered
        /\ pc[Timer] = "idle"
  BY View
<1>1. /\ pc[t] = "arrived" /\ t # Timer /\ MayWrite(t) /\ lock' = t
      /\ base' = [base EXCEPT ![t] = row]
      /\ UNCHANGED <<row, written, work, timers, proposed, offered, runs, undone, cancelled,
                     asked, latest, messages, faults>>
  BY <1>0 DEF Load, history
<1>2. w = {} /\ k = NoWork
  BY <1>0, <1>1 DEF Turn, Fresh
<1>3. PICK r \in Rows : r = row
  BY <1>0
<1>4. \E p \in {"drafting", "dispatch", "closing"}, n \in Rows :
        /\ pc' = [pc EXCEPT ![t] = p] /\ mem' = [mem EXCEPT ![t] = n]
        /\ \/ n.draft = r.draft
           \/ n.draft = NoDraft /\ n.state = "ONBOARDING" /\ r.state = "NEW"
        /\ n.state = r.state \/ n.state \in {"IDLE", "ONBOARDING"}
        /\ p = "dispatch" => /\ t \in Chats /\ n.draft = r.draft /\ n.last = r.last
                             /\ n.state = IF r.state = "NEW" THEN "IDLE" ELSE r.state
  <2>1. t \in Webs => t \notin Chats
    BY DraftsDiffer
  <2>2. t \in Webs \cup Chats
    BY <1>1 DEF Turns
  <2>3. CASE /\ mem' = [mem EXCEPT ![t] = IF row.state = "NEW" /\ t \in Chats
                                            THEN [row EXCEPT !.state = "IDLE"] ELSE row]
             /\ Goto(t, IF t \in Webs THEN "drafting" ELSE "dispatch")
    <3>1. CASE row.state = "NEW" /\ t \in Chats
      <4>1. PICK n \in Rows : n = [r EXCEPT !.state = "IDLE"]
        BY StateTyped
      <4>2. n.state = "IDLE" /\ n.draft = r.draft /\ n.last = r.last
        BY <4>1, StateTyped
      <4>3. mem' = [mem EXCEPT ![t] = n] /\ pc' = [pc EXCEPT ![t] = "dispatch"]
        BY <1>3, <2>1, <2>3, <3>1, <4>1 DEF Goto
      <4>4. QED BY <1>3, <3>1, <4>2, <4>3
    <3>2. CASE ~(row.state = "NEW" /\ t \in Chats)
      <4>1. /\ mem' = [mem EXCEPT ![t] = r]
            /\ pc' = [pc EXCEPT ![t] = IF t \in Webs THEN "drafting" ELSE "dispatch"]
        BY <1>3, <2>3, <3>2 DEF Goto
      <4>2. CASE t \in Webs
        BY <4>1, <4>2
      <4>3. CASE t \notin Webs
        BY <1>3, <2>2, <3>2, <4>1, <4>3
      <4>4. QED BY <4>2, <4>3
    <3>3. QED BY <3>1, <3>2
  <2>4. CASE /\ mem' = [mem EXCEPT ![t].state = "ONBOARDING"]
             /\ Goto(t, "closing") /\ row.state = "NEW" /\ t \in Chats
    <3>1. m = EmptyRow /\ m = mem[t]
      BY <1>0, <1>1, TurnTyped DEF Turn, Fresh
    <3>2. PICK n \in Rows : n = [EmptyRow EXCEPT !.state = "ONBOARDING"]
      BY EmptyTyped, StateTyped
    <3>3. n.state = "ONBOARDING" /\ n.draft = NoDraft
      BY <3>2, EmptyTyped, StateTyped
    <3>4. mem' = [mem EXCEPT ![t] = n] /\ pc' = [pc EXCEPT ![t] = "closing"]
      BY <2>4, <3>1, <3>2 DEF Goto
    <3>5. QED BY <1>3, <2>4, <3>3, <3>4
  <2>5. QED BY <2>3, <2>4 DEF Load
<1>5. PICK p \in {"drafting", "dispatch", "closing"}, n \in Rows :
        /\ pc' = [pc EXCEPT ![t] = p] /\ mem' = [mem EXCEPT ![t] = n]
        /\ \/ n.draft = r.draft
           \/ n.draft = NoDraft /\ n.state = "ONBOARDING" /\ r.state = "NEW"
        /\ n.state = r.state \/ n.state \in {"IDLE", "ONBOARDING"}
        /\ p = "dispatch" => /\ t \in Chats /\ n.draft = r.draft /\ n.last = r.last
                             /\ n.state = IF r.state = "NEW" THEN "IDLE" ELSE r.state
  BY <1>4
<1>6. Turn(t, p, r, n, {}, NoWork)'
  <2>1. ~NewDraft(r, n, {})
    BY <1>5, DraftsDiffer DEF NewDraft, Writes
  <2>2. n.draft \in Drafts => n.draft \in offered
    BY <1>0, <1>3, <1>5, DraftsDiffer
  <2>3. (Writes(r, n, {}, "state") => n.state \in {"IDLE", "ONBOARDING"})
        /\ (Writes(r, n, {}, "draft") => Writes(r, n, {}, "state") /\ n.state = "ONBOARDING")
    BY <1>5 DEF Writes
  <2>4. Writing(t, r, n, {})'
    BY <1>0, <1>1, <1>3, <2>1, <2>2, <2>3 DEF Writing, Confirmable, NewDraft, Writes
  <2>5. row' = r /\ lock' = t
    BY <1>1, <1>3
  <2>6. Fresh(p, r, n, {}, NoWork)' /\ Loaded(t, p, r, n, {}, NoWork)'
        /\ Running(t, p, r, n, {}, NoWork)' /\ Idling(t, p, r, n, {}, NoWork)'
    BY <1>5, <2>5 DEF Fresh, Loaded, Running, Idling
  <2>7. Working(t, p, r, n, {}, NoWork)'
    BY EmptyTyped DEF Working
  <2>8. QED BY <2>4, <2>6, <2>7 DEF Turn
<1>7. n.draft \in Drafts => n.draft \in offered
  BY <1>0, <1>3, <1>5, DraftsDiffer
<1>8. /\ p \in Places /\ {} \in SUBSET Columns /\ NoWork \in Works
      /\ messages' \in Nat /\ lock \in {t, Nobody} /\ lock' \in {t, Nobody}
  BY <1>1, EmptyTyped DEF Places, MayWrite, ConvInv, TypeOK
<1>9. /\ pc' = [pc EXCEPT ![t] = p] /\ base' = [base EXCEPT ![t] = r]
      /\ mem' = [mem EXCEPT ![t] = n] /\ written' = [written EXCEPT ![t] = {}]
      /\ work' = [work EXCEPT ![t] = NoWork]
      /\ UNCHANGED <<row, offered, undone, cancelled, asked, runs, latest, timers, proposed,
                     faults>>
  BY <1>0, <1>1, <1>2, <1>3, <1>5
<1>10. QED BY ZenonT(40), <1>1, <1>6, <1>7, <1>8, <1>9, PlainStep

-----------------------------------------------------------------------------
(* A message is dispatched *)

\* A webhook turn that has read the row.
LEMMA DispatchView ==
  ASSUME ConvInv, NEW t \in Turns, pc[t] = "dispatch"
  PROVE  \E b \in Rows, m \in Rows :
           /\ b = row /\ m = mem[t] /\ t # Timer /\ t \in Chats /\ lock = t
           /\ m.draft = b.draft /\ m.last = b.last
           /\ m.state = IF b.state = "NEW" THEN "IDLE" ELSE b.state
           /\ m.state \in Confirmable => m.draft \in Drafts
           /\ b.draft \in Drafts => b.draft \in offered
           /\ base = [base EXCEPT ![t] = b] /\ mem = [mem EXCEPT ![t] = m]
           /\ written = [written EXCEPT ![t] = {}] /\ work = [work EXCEPT ![t] = NoWork]
           /\ \A u \in Turns : mem[u].draft \in Drafts => mem[u].draft \in proposed
<1>0. PICK b \in Rows, m \in Rows, w \in SUBSET Columns, k \in Works :
        /\ b = base[t] /\ m = mem[t] /\ w = written[t] /\ k = work[t]
        /\ Turn(t, pc[t], b, m, w, k)
        /\ base = [base EXCEPT ![t] = b] /\ mem = [mem EXCEPT ![t] = m]
        /\ written = [written EXCEPT ![t] = w] /\ work = [work EXCEPT ![t] = k]
        /\ row.draft \in Drafts => row.draft \in offered
        /\ ConfirmableHasDraft /\ pc[Timer] = "idle"
  BY View
<1>1. Loaded(t, "dispatch", b, m, w, k)
  BY <1>0 DEF Turn
<1>2. /\ t \in Chats /\ lock = t /\ w = {} /\ k = NoWork /\ b = row
      /\ m.draft = row.draft /\ m.last = row.last
      /\ m.state = IF row.state = "NEW" THEN "IDLE" ELSE row.state
  BY <1>1 DEF Loaded
<1>3. m.state \in Confirmable => m.draft \in Drafts
  BY <1>0, <1>2 DEF ConfirmableHasDraft, Confirmable
<1>4. QED BY <1>0, <1>2, <1>3, TurnTyped

\* A handler that only changes the row in memory, and leaves the turn to close.
LEMMA AnsweredStep ==
  ASSUME ConvInv, NEW t \in Turns, pc[t] = "dispatch", NEW n \in Rows,
         n.state = mem[t].state \/ n.state \notin Confirmable,
         \/ n.draft = mem[t].draft
         \/ n.draft \in {NoDraft, JoinStep} /\ mem[t].state \notin Confirmable,
         mem' = [mem EXCEPT ![t] = n], pc' = [pc EXCEPT ![t] = "closing"],
         UNCHANGED <<row, lock, base, written, work, timers, proposed, history, messages, faults>>
  PROVE  ConvInv'
<1>0. PICK b \in Rows, m \in Rows :
        /\ b = row /\ m = mem[t] /\ t # Timer /\ t \in Chats /\ lock = t
        /\ m.draft = b.draft /\ m.last = b.last
        /\ m.state = IF b.state = "NEW" THEN "IDLE" ELSE b.state
        /\ m.state \in Confirmable => m.draft \in Drafts
        /\ b.draft \in Drafts => b.draft \in offered
        /\ base = [base EXCEPT ![t] = b]
        /\ written = [written EXCEPT ![t] = {}] /\ work = [work EXCEPT ![t] = NoWork]
  BY DispatchView
<1>1. /\ row' = b /\ lock' = t /\ UNCHANGED <<row, offered, proposed>>
  BY <1>0 DEF history
<1>2. ~NewDraft(b, n, {})
  BY <1>0, DraftsDiffer DEF NewDraft, Writes
<1>3. n.draft \in Drafts => n.draft \in offered /\ n.draft = m.draft
  BY <1>0, DraftsDiffer
<1>4. Writes(b, n, {}, "state") /\ n.state \in Confirmable => FALSE
  BY <1>0 DEF Writes, Confirmable
<1>5. Writes(b, n, {}, "draft") => b.state \notin Confirmable
  BY <1>0 DEF Writes, Confirmable
<1>6. Writing(t, b, n, {})'
  BY <1>0, <1>1, <1>2, <1>3, <1>4, <1>5 DEF Writing, NewDraft, Writes
<1>7. Working(t, "closing", b, n, {}, NoWork)'
  BY EmptyTyped DEF Working
<1>8. Turn(t, "closing", b, n, {}, NoWork)'
  BY <1>6, <1>7 DEF Turn, Fresh, Loaded, Running, Idling
<1>9. /\ "closing" \in Places /\ {} \in SUBSET Columns /\ NoWork \in Works /\ messages' \in Nat
  BY EmptyTyped DEF Places, ConvInv, TypeOK
<1>10. /\ base' = [base EXCEPT ![t] = b] /\ written' = [written EXCEPT ![t] = {}]
       /\ work' = [work EXCEPT ![t] = NoWork] /\ lock' = lock
       /\ UNCHANGED <<row, offered, undone, cancelled, asked, runs, latest, timers, proposed,
                      faults>>
  BY <1>0 DEF history
<1>11. t # Timer /\ (n.draft \in Drafts => n.draft \in offered)
  BY <1>0, <1>3
<1>12. QED BY <1>8, <1>9, <1>10, <1>11, PlainStep

LEMMA OnboardStep == ASSUME ConvInv, NEW t \in Turns, Onboard(t) PROVE ConvInv'
<1>1. /\ pc[t] = "dispatch" /\ mem[t].state = "ONBOARDING"
      /\ pc' = [pc EXCEPT ![t] = "closing"]
      /\ UNCHANGED <<row, lock, base, written, work, timers, proposed, history, messages, faults>>
  BY DEF Onboard, Goto
<1>2. PICK m \in Rows : m = mem[t]
  BY TurnTyped
<1>3. PICK n \in {m, [m EXCEPT !.state = "IDLE"], [m EXCEPT !.draft = JoinStep], Reset(m)} :
        mem' = [mem EXCEPT ![t] = n]
  BY <1>2 DEF Onboard
<1>4. /\ n \in Rows /\ (n.state = m.state \/ n.state \notin Confirmable)
      /\ n.draft = m.draft \/ n.draft \in {NoDraft, JoinStep}
  <2>1. CASE n = m
    BY <2>1
  <2>2. CASE n = [m EXCEPT !.state = "IDLE"]
    <3>1. n \in Rows /\ n.state = "IDLE" /\ n.draft = m.draft
      BY <2>2, StateTyped
    <3>2. QED BY <3>1 DEF Confirmable
  <2>3. CASE n = [m EXCEPT !.draft = JoinStep]
    <3>1. n \in Rows /\ n.state = m.state /\ n.draft = JoinStep
      BY <2>3, Operations
    <3>2. QED BY <3>1
  <2>4. CASE n = Reset(m)
    <3>1. n \in Rows /\ n.state = "IDLE" /\ n.draft = NoDraft
      BY <2>4, Operations
    <3>2. QED BY <3>1 DEF Confirmable
  <2>5. QED BY <1>3, <2>1, <2>2, <2>3, <2>4
<1>5. mem[t].state \notin Confirmable
  BY <1>1 DEF Confirmable
<1>6. QED BY <1>1, <1>2, <1>3, <1>4, <1>5, AnsweredStep

\* A turn proposes a draft that nobody has seen.
LEMMA ProposeStep ==
  ASSUME ConvInv, NEW t \in Turns, t # Timer, pc[t] \in {"dispatch", "drafting"},
         NEW d \in Drafts \ proposed,
         NEW n \in Rows, n.state \in Confirmable, n.draft = d,
         mem' = [mem EXCEPT ![t] = n], pc' = [pc EXCEPT ![t] = "closing"],
         proposed' = proposed \cup {d}, timers' \in Nat,
         UNCHANGED <<row, lock, base, written, work, history, messages, faults>>
  PROVE  ConvInv'
<1>0. PICK b \in Rows, m \in Rows, w \in SUBSET Columns, k \in Works :
        /\ b = base[t] /\ m = mem[t]
        /\ Turn(t, pc[t], b, m, w, k)
        /\ base = [base EXCEPT ![t] = b]
        /\ written = [written EXCEPT ![t] = w] /\ work = [work EXCEPT ![t] = k]
        /\ offered \subseteq proposed /\ proposed \subseteq Drafts
        /\ row.draft \in Drafts => row.draft \in offered
  BY View
<1>2. /\ base' = [base EXCEPT ![t] = b]
      /\ written' = [written EXCEPT ![t] = w] /\ work' = [work EXCEPT ![t] = k]
      /\ UNCHANGED <<row, offered, undone, cancelled, asked, runs, latest>>
  BY <1>0 DEF history
<1>3. b.draft \in Drafts => b.draft \in offered
  BY <1>0 DEF Turn, Writing
<1>4. b.draft # d /\ d \notin offered
  BY <1>0, <1>3
<1>5. \A u \in Turns \ {t} : mem'[u].draft # n.draft
  <2>1. \A u \in Turns \ {t} : mem'[u] = mem[u] /\ mem[u].draft # d
    BY <1>2, TurnTyped
  <2>2. QED BY <2>1
<1>6. Writing(t, b, n, w)'
  BY <1>2, <1>3, <1>4, <1>5 DEF Writing, NewDraft, Writes
<1>7. Working(t, "closing", b, n, w, k)'
  <2>1. Working(t, pc[t], b, m, w, k) /\ pc[t] \notin {"run", "replace"}
    BY <1>0 DEF Turn
  <2>2. Writes(b, n, w, "draft")
    BY <1>4 DEF Writes
  <2>3. k.ran \in Drafts \cup {NoDraft}
    BY DEF Works
  <2>4. QED BY <1>0, <1>2, <1>4, <2>1, <2>2, <2>3 DEF Working
<1>8. Turn(t, "closing", b, n, w, k)'
  BY <1>6, <1>7 DEF Turn, Fresh, Loaded, Running, Idling
<1>9. /\ "closing" \in Places /\ messages' \in Nat /\ faults' \in Nat /\ lock' = lock
      /\ runs' \in [Drafts -> Nat] /\ latest' \in Drafts \cup {NoDraft}
      /\ lock' \in Turns \cup {Nobody}
      /\ proposed \subseteq proposed' /\ proposed' \subseteq Drafts
      /\ n.draft \notin proposed
  BY <1>0 DEF Places, ConvInv, TypeOK, history
<1>10. QED BY <1>2, <1>8, <1>9, QuietStep

LEMMA InModeStep == ASSUME ConvInv, NEW t \in Turns, InMode(t) PROVE ConvInv'
<1>1. /\ pc[t] = "dispatch" /\ mem[t].state = "MODE" /\ pc' = [pc EXCEPT ![t] = "closing"]
      /\ UNCHANGED <<row, lock, base, written, work, timers, history, messages, faults>>
  BY DEF InMode, Goto
<1>2. PICK m \in Rows : m = mem[t] /\ m.state \notin Confirmable
  BY <1>1, TurnTyped DEF Confirmable
<1>3. CASE /\ \E s \in {"MODE", "IDLE"} : mem' = [mem EXCEPT ![t].state = s]
           /\ UNCHANGED proposed
  <2>1. PICK s \in {"MODE", "IDLE"} : mem' = [mem EXCEPT ![t] = [m EXCEPT !.state = s]]
    BY <1>2, <1>3
  <2>2. PICK n \in Rows : /\ n = [m EXCEPT !.state = s]
                          /\ n.state \notin Confirmable /\ n.draft = m.draft
    BY StateTyped DEF Confirmable
  <2>3. mem' = [mem EXCEPT ![t] = n]
    BY <2>1, <2>2
  <2>4. QED BY <1>1, <1>2, <1>3, <2>2, <2>3, AnsweredStep
<1>4. ASSUME NEW d \in Drafts \ proposed, mem' = [mem EXCEPT ![t] = Propose(@, d, FALSE)],
             proposed' = proposed \cup {d}
      PROVE  ConvInv'
  <2>1. t # Timer /\ timers' \in Nat
    BY <1>1 DEF ConvInv, RowSound, TypeOK
  <2>2. PICK n \in Rows : n = Propose(m, d, FALSE) /\ n.state \in Confirmable /\ n.draft = d
    BY ProposeTyped
  <2>3. mem' = [mem EXCEPT ![t] = n]
    BY <1>2, <1>4, <2>2
  <2>4. QED BY <1>1, <1>4, <2>1, <2>2, <2>3, ProposeStep
<1>5. QED BY <1>3, <1>4 DEF InMode

LEMMA DraftStep ==
  ASSUME ConvInv, NEW t \in Turns, NEW d \in Drafts, NEW auto \in BOOLEAN, Draft(t, d, auto)
  PROVE  ConvInv'
<1>1. t # Timer /\ timers' \in Nat
  BY DEF Draft, ConvInv, RowSound, TypeOK
<1>2. /\ pc[t] = "drafting" /\ d \notin proposed /\ pc' = [pc EXCEPT ![t] = "closing"]
      /\ proposed' = proposed \cup {d}
      /\ UNCHANGED <<row, lock, base, written, work, history, messages, faults>>
  BY DEF Draft, Goto
<1>3. PICK m \in Rows : m = mem[t]
  BY TurnTyped
<1>4. PICK n \in Rows : n = Propose(m, d, auto) /\ n.state \in Confirmable /\ n.draft = d
  BY ProposeTyped
<1>5. mem' = [mem EXCEPT ![t] = n]
  BY <1>3, <1>4 DEF Draft
<1>6. QED BY <1>1, <1>2, <1>4, <1>5, ProposeStep

\* The draft that waits is about to run.
LEMMA BeginStep ==
  ASSUME ConvInv, NEW t \in Turns, pc[t] = "dispatch", mem[t].state \in Confirmable,
         NEW place \in {"run", "replace"}, Begin(t, place),
         UNCHANGED <<row, lock, base, written, timers, proposed, history, messages, faults>>
  PROVE  ConvInv'
<1>0. PICK b \in Rows, m \in Rows :
        /\ b = row /\ m = mem[t] /\ t # Timer /\ t \in Chats /\ lock = t
        /\ m.draft = b.draft /\ m.last = b.last
        /\ m.state = IF b.state = "NEW" THEN "IDLE" ELSE b.state
        /\ m.state \in Confirmable => m.draft \in Drafts
        /\ b.draft \in Drafts => b.draft \in offered
        /\ base = [base EXCEPT ![t] = b] /\ mem = [mem EXCEPT ![t] = m]
        /\ written = [written EXCEPT ![t] = {}] /\ work = [work EXCEPT ![t] = NoWork]
  BY DispatchView
<1>1. /\ m.state \in Confirmable /\ m.draft \in Drafts /\ m.draft \in offered
      /\ m.state = b.state /\ m.draft = b.draft /\ m.last = b.last /\ m.draft # NoDraft
      /\ t \in Chats /\ lock = t
  BY <1>0, DraftsDiffer DEF Confirmable
<1>2. PICK k \in Works : /\ k = [NoWork EXCEPT !.todo = m.draft] /\ k.todo = m.draft
                         /\ k.ran = NoDraft /\ k.undid = NoDraft /\ k.dropped = NoDraft
  <2>1. PICK k \in Works : k = [NoWork EXCEPT !.todo = m.draft]
    BY <1>1, EmptyTyped, WorkTyped
  <2>2. /\ k.todo = m.draft /\ k.ran = NoDraft /\ k.undid = NoDraft
        /\ k.dropped = NoDraft
    BY <2>1, <1>1 DEF Works, NoWork
  <2>3. QED BY <2>1, <2>2
<1>3. /\ base' = [base EXCEPT ![t] = b] /\ written' = [written EXCEPT ![t] = {}]
      /\ mem' = [mem EXCEPT ![t] = m] /\ lock' = lock /\ row' = b
      /\ UNCHANGED <<row, offered, undone, cancelled, asked, runs, latest, timers, proposed,
                     faults>>
  BY <1>0, <1>1 DEF Begin, history
<1>4. work' = [work EXCEPT ![t] = k] /\ pc' = [pc EXCEPT ![t] = place]
  <2>1. work[t] = NoWork /\ mem[t] = m
    BY <1>0 DEF ConvInv, TypeOK
  <2>2. QED BY <1>1, <1>2, <2>1 DEF Begin, Goto
<1>5. Writing(t, b, m, {})'
  <2>1. ~Writes(b, m, {}, "state") /\ ~Writes(b, m, {}, "draft")
    BY <1>1 DEF Writes
  <2>2. QED BY <1>1, <1>3, <2>1 DEF Writing, NewDraft, Writes
<1>6. Turn(t, place, b, m, {}, k)'
  BY <1>1, <1>2, <1>3, <1>5
     DEF Turn, Fresh, Loaded, Running, Idling, Working
<1>7. /\ place \in Places /\ {} \in SUBSET Columns /\ messages' \in Nat /\ t # Timer
  BY <1>0 DEF Places, ConvInv, TypeOK
<1>8. m.draft \in Drafts => m.draft \in offered
  BY <1>1
<1>9. QED BY <1>3, <1>4, <1>6, <1>7, <1>8, PlainStep

LEMMA DiscardStep ==
  ASSUME ConvInv, NEW t \in Turns, pc[t] = "dispatch", mem[t].state \in Confirmable,
         NEW p \in {"closing", "idle_handler"},
         NEW n \in Rows, n = Discard(mem[t]),
         NEW k \in Works, k = [NoWork EXCEPT !.dropped = mem[t].draft],
         pc' = [pc EXCEPT ![t] = p], mem' = [mem EXCEPT ![t] = n],
         work' = [work EXCEPT ![t] = k],
         UNCHANGED <<row, lock, base, written, timers, proposed, history, messages, faults>>
  PROVE  ConvInv'
<1>0. PICK b \in Rows, m \in Rows :
        /\ b = row /\ m = mem[t] /\ t # Timer /\ t \in Chats /\ lock = t
        /\ m.draft = b.draft /\ m.last = b.last
        /\ m.state = IF b.state = "NEW" THEN "IDLE" ELSE b.state
        /\ m.state \in Confirmable => m.draft \in Drafts
        /\ b.draft \in Drafts => b.draft \in offered
        /\ base = [base EXCEPT ![t] = b] /\ mem = [mem EXCEPT ![t] = m]
        /\ written = [written EXCEPT ![t] = {}] /\ work = [work EXCEPT ![t] = NoWork]
  BY DispatchView
<1>1. /\ m.state \in Confirmable /\ m.draft \in Drafts /\ m.draft \in offered
      /\ m.state = b.state /\ m.draft = b.draft /\ m.last = b.last /\ m.draft # NoDraft
      /\ t \in Chats /\ lock = t
  BY <1>0, DraftsDiffer DEF Confirmable
<1>2. k.todo = NoDraft /\ k.ran = NoDraft /\ k.undid = NoDraft /\ k.dropped = m.draft
  <2>1. k = [NoWork EXCEPT !.dropped = m.draft]
    BY <1>0
  <2>2. QED BY <1>1, <2>1 DEF Works, NoWork
<1>3. n.state = "IDLE" /\ n.draft = NoDraft
  BY <1>0, Operations
<1>4. /\ base' = [base EXCEPT ![t] = b] /\ written' = [written EXCEPT ![t] = {}]
      /\ lock' = lock /\ row' = b
      /\ UNCHANGED <<row, offered, undone, cancelled, asked, runs, latest, timers, proposed,
                     faults>>
  BY <1>0 DEF history
<1>6. Writes(b, n, {}, "state") /\ Writes(b, n, {}, "draft") /\ ~NewDraft(b, n, {})
      /\ n.state \notin Confirmable /\ n.draft \notin Drafts /\ b.state # "MODE"
  BY <1>1, <1>3, DraftsDiffer DEF Writes, NewDraft, Confirmable
<1>7. Writing(t, b, n, {})'
  BY <1>1, <1>4, <1>6 DEF Writing, NewDraft, Writes
<1>8. Working(t, p, b, n, {}, k)'
  BY <1>1, <1>2, <1>3, <1>4, <1>6 DEF Working, Writes
<1>9. Turn(t, p, b, n, {}, k)'
  BY <1>1, <1>2, <1>3, <1>6, <1>7, <1>8 DEF Turn, Fresh, Loaded, Running, Idling
<1>10. /\ p \in Places /\ {} \in SUBSET Columns /\ messages' \in Nat /\ t # Timer
  BY <1>0 DEF Places, ConvInv, TypeOK
<1>11. n.draft \in Drafts => n.draft \in offered
  BY <1>6
<1>12. QED BY <1>4, <1>9, <1>10, <1>11, PlainStep

LEMMA ConfirmYesStep == ASSUME ConvInv, NEW t \in Turns, ConfirmYes(t) PROVE ConvInv'
BY BeginStep DEF ConfirmYes

LEMMA ConfirmOtherStep ==
  ASSUME ConvInv, NEW t \in Turns, NEW text \in {"no", "new"}, NEW byDefault \in BOOLEAN,
         ConfirmOther(t, text, byDefault)
  PROVE  ConvInv'
<1>1. /\ pc[t] = "dispatch" /\ mem[t].state \in Confirmable
      /\ UNCHANGED <<row, lock, base, written, timers, proposed, history, messages, faults>>
  BY DEF ConfirmOther
<1>2. CASE Begin(t, "replace")
  BY <1>1, <1>2, BeginStep
<1>3. ASSUME mem' = [mem EXCEPT ![t] = Discard(@)],
             work' = [work EXCEPT ![t].dropped = mem[t].draft],
             Goto(t, IF text = "no" THEN "closing" ELSE "idle_handler")
      PROVE  ConvInv'
  <2>1. PICK p \in {"closing", "idle_handler"} : pc' = [pc EXCEPT ![t] = p]
    BY <1>3 DEF Goto
  <2>2. PICK m \in Rows : m = mem[t]
    BY TurnTyped
  <2>3. PICK n \in Rows : n = Discard(m)
    BY Operations
  <2>4. work[t] = NoWork /\ m.draft \in Drafts \cup {NoDraft}
    BY <1>1, <2>2, DispatchView DEF ConvInv, TypeOK
  <2>5. PICK k \in Works : k = [NoWork EXCEPT !.dropped = m.draft]
    BY <2>4, EmptyTyped, WorkTyped
  <2>6. mem' = [mem EXCEPT ![t] = n] /\ work' = [work EXCEPT ![t] = k]
    BY <1>3, <2>2, <2>3, <2>4, <2>5
  <2>7. n = Discard(mem[t]) /\ k = [NoWork EXCEPT !.dropped = mem[t].draft]
    BY <2>2, <2>3, <2>5
  <2>8. QED BY <1>1, <2>1, <2>6, <2>7, DiscardStep
<1>4. QED BY <1>2, <1>3 DEF ConfirmOther

LEMMA GoIdleStep == ASSUME ConvInv, NEW t \in Turns, GoIdle(t) PROVE ConvInv'
<1>0. PICK b \in Rows, m \in Rows :
        /\ b = row /\ m = mem[t] /\ t # Timer /\ t \in Chats /\ lock = t
        /\ m.draft = b.draft /\ m.last = b.last
        /\ m.state = IF b.state = "NEW" THEN "IDLE" ELSE b.state
        /\ b.draft \in Drafts => b.draft \in offered
        /\ base = [base EXCEPT ![t] = b] /\ mem = [mem EXCEPT ![t] = m]
        /\ written = [written EXCEPT ![t] = {}] /\ work = [work EXCEPT ![t] = NoWork]
  BY DispatchView DEF GoIdle
<1>1. /\ mem[t].state = "IDLE" /\ pc' = [pc EXCEPT ![t] = "idle_handler"]
      /\ UNCHANGED <<row, lock, base, mem, written, work, timers, proposed, offered, runs,
                     undone, cancelled, asked, latest, messages, faults>>
  BY DEF GoIdle, Goto, session, history
<1>2. /\ base' = [base EXCEPT ![t] = b] /\ mem' = [mem EXCEPT ![t] = m]
      /\ written' = [written EXCEPT ![t] = {}] /\ work' = [work EXCEPT ![t] = NoWork]
  BY <1>0, <1>1
<1>3. /\ m.state = "IDLE" /\ b.state \in {"NEW", "IDLE"} /\ m.draft = b.draft
      /\ m.draft \in Drafts => m.draft \in offered
  BY <1>0, <1>1
<1>4. Turn(t, "idle_handler", b, m, {}, NoWork)'
  <2>1. ~Writes(b, m, {}, "draft")
    BY <1>3 DEF Writes
  <2>2. Writing(t, b, m, {})'
    BY <1>1, <1>3, <2>1 DEF Writing, NewDraft, Writes, Confirmable
  <2>3. QED BY <1>0, <1>3, <2>2, EmptyTyped DEF Turn, Fresh, Loaded, Running, Idling, Working
<1>5. /\ "idle_handler" \in Places /\ {} \in SUBSET Columns /\ NoWork \in Works
      /\ messages' \in Nat /\ t # Timer
  BY <1>0, <1>1, EmptyTyped DEF Places, ConvInv, TypeOK
<1>6. /\ UNCHANGED <<row, offered, undone, cancelled, asked, runs, latest, timers, proposed,
                     faults>>
      /\ pc' = [pc EXCEPT ![t] = "idle_handler"] /\ lock' = lock
  BY <1>1
<1>7. m.draft \in Drafts => m.draft \in offered
  BY <1>3
<1>8. QED BY <1>2, <1>4, <1>5, <1>6, <1>7, PlainStep

-----------------------------------------------------------------------------
(* The idle handler, the parser and the tools *)

LEMMA AnswerStep == ASSUME ConvInv, NEW t \in Turns, Answer(t) PROVE ConvInv'
<1>0. PICK b \in Rows, m \in Rows, w \in SUBSET Columns, k \in Works :
        /\ m = mem[t]
        /\ Turn(t, pc[t], b, m, w, k)
        /\ base = [base EXCEPT ![t] = b] /\ mem = [mem EXCEPT ![t] = m]
        /\ written = [written EXCEPT ![t] = w] /\ work = [work EXCEPT ![t] = k]
        /\ pc[Timer] = "idle"
  BY View
<1>1. /\ pc[t] = "drafting" /\ pc' = [pc EXCEPT ![t] = "closing"]
      /\ UNCHANGED <<row, lock, base, mem, written, work, timers, proposed, offered, runs,
                     undone, cancelled, asked, latest, messages, faults>>
  BY DEF Answer, Goto, session, history
<1>2. Turn(t, "closing", b, m, w, k)'
  <2>1. Turn(t, "drafting", b, m, w, k)
    BY <1>0, <1>1
  <2>2. Turn(t, "closing", b, m, w, k)
    BY <2>1 DEF Turn, Fresh, Loaded, Running, Idling, Working
  <2>3. QED BY <1>1, <2>2 DEF Turn, Fresh, Loaded, Running, Idling, Writing, NewDraft, Working,
                            Writes
<1>3. /\ base' = [base EXCEPT ![t] = b] /\ mem' = [mem EXCEPT ![t] = m]
      /\ written' = [written EXCEPT ![t] = w] /\ work' = [work EXCEPT ![t] = k]
  BY <1>0, <1>1
<1>4. t # Timer /\ "closing" \in Places /\ messages' \in Nat
  BY <1>0, <1>1 DEF Places, ConvInv, TypeOK
<1>5. m.draft \in Drafts => m.draft = mem[t].draft
  BY <1>0
<1>6. /\ UNCHANGED <<row, offered, undone, cancelled, asked, runs, latest, timers, proposed,
                     faults>>
      /\ pc' = [pc EXCEPT ![t] = "closing"] /\ lock' = lock
  BY <1>1
<1>7. QED BY <1>2, <1>3, <1>4, <1>5, <1>6, PlainStep

\* A turn in the idle handler.
LEMMA IdleView ==
  ASSUME ConvInv, NEW t \in Turns, pc[t] = "idle_handler"
  PROVE  \E b \in Rows, m \in Rows, k \in Works :
           /\ b = base[t] /\ m = mem[t] /\ k = work[t] /\ written[t] = {}
           /\ t # Timer /\ t \in Chats /\ m.state = "IDLE" /\ b.state # "MODE"
           /\ k.todo = NoDraft /\ k.undid = NoDraft
           /\ m.draft = b.draft \/ (b.state \in Confirmable /\ m.draft = NoDraft)
           /\ b.draft \in Drafts => b.draft \in offered
           /\ Working(t, "idle_handler", b, m, {}, k)
           /\ base = [base EXCEPT ![t] = b] /\ mem = [mem EXCEPT ![t] = m]
           /\ written = [written EXCEPT ![t] = {}] /\ work = [work EXCEPT ![t] = k]
<1>0. PICK b \in Rows, m \in Rows, w \in SUBSET Columns, k \in Works :
        /\ b = base[t] /\ m = mem[t] /\ w = written[t] /\ k = work[t]
        /\ Turn(t, pc[t], b, m, w, k)
        /\ base = [base EXCEPT ![t] = b] /\ mem = [mem EXCEPT ![t] = m]
        /\ written = [written EXCEPT ![t] = w] /\ work = [work EXCEPT ![t] = k]
        /\ pc[Timer] = "idle"
  BY View
<1>1. Turn(t, "idle_handler", b, m, w, k)
  BY <1>0
<1>2. /\ t \in Chats /\ w = {} /\ m.state = "IDLE" /\ b.state # "MODE" /\ k.undid = NoDraft
      /\ m.draft = b.draft \/ (b.state \in Confirmable /\ m.draft = NoDraft)
      /\ b.draft \in Drafts => b.draft \in offered
      /\ k.todo = NoDraft /\ Working(t, "idle_handler", b, m, w, k)
  BY <1>1 DEF Turn, Idling, Writing, Working
<1>3. t # Timer
  BY <1>0
<1>4. QED BY <1>0, <1>2, <1>3

\* A turn leaves the idle handler with what it has in memory of the draft; its
\* next commit writes at least the columns it would have written.
LEMMA HandledStep ==
  ASSUME ConvInv, NEW t \in Turns, pc[t] = "idle_handler",
         NEW p \in {"drafting", "closing"},
         NEW b \in Rows, NEW n \in Rows, NEW w \in SUBSET Columns, NEW k \in Works,
         n.draft = mem[t].draft, n.state \notin Confirmable,
         b.draft \in Drafts => b.draft \in {base[t].draft, mem[t].draft},
         \A c \in {"state", "draft"} :
           Writes(base[t], mem[t], {}, c) => Writes(b, n, w, c),
         Writes(b, n, w, "draft") => Writes(base[t], mem[t], {}, "draft"),
         k.todo = NoDraft, k.ran = work[t].ran, k.dropped = work[t].dropped,
         pc' = [pc EXCEPT ![t] = p], base' = [base EXCEPT ![t] = b],
         mem' = [mem EXCEPT ![t] = n], written' = [written EXCEPT ![t] = w],
         work' = [work EXCEPT ![t] = k],
         lock' = lock \/ (lock \in {t, Nobody} /\ lock' = t),
         UNCHANGED <<row, timers, proposed, history, messages, faults>>
  PROVE  ConvInv'
<1>0. PICK a \in Rows, m \in Rows, z \in Works :
        /\ a = base[t] /\ m = mem[t] /\ z = work[t]
        /\ t # Timer /\ t \in Chats /\ m.state = "IDLE" /\ a.state # "MODE"
        /\ m.draft = a.draft \/ (a.state \in Confirmable /\ m.draft = NoDraft)
        /\ a.draft \in Drafts => a.draft \in offered
        /\ Working(t, "idle_handler", a, m, {}, z)
  BY IdleView
<1>1. Writes(a, m, {}, "draft") => /\ Writes(a, m, {}, "state") /\ m.draft = NoDraft
  BY <1>0 DEF Writes, Confirmable
<1>2. /\ m.draft \in Drafts => m.draft \in offered
      /\ b.draft \in Drafts => b.draft \in offered
  BY <1>0, DraftsDiffer
<1>3. /\ ~NewDraft(b, n, w)
      /\ Writes(b, n, w, "draft") => Writes(b, n, w, "state")
  BY <1>0, <1>1, DraftsDiffer DEF NewDraft
<1>4. UNCHANGED <<row, offered, undone, cancelled, asked, runs, latest, timers, proposed,
                  faults>>
  BY DEF history
<1>5. Writing(t, b, n, w)'
  <2>1. n.draft \in Drafts => n.draft \in offered
    BY <1>0, <1>2
  <2>2. QED BY <1>2, <1>3, <1>4, <2>1 DEF Writing, NewDraft, Writes
<1>6. Working(t, p, b, n, w, k)'
  <2>1. z.dropped # NoDraft => /\ z.dropped \in offered /\ Writes(b, n, w, "draft")
                              /\ n.draft # z.dropped
    BY <1>0 DEF Working
  <2>2. z.ran # NoDraft => lock = t /\ row.state \in Confirmable /\ row.draft = z.ran
    BY <1>0 DEF Working
  <2>3. lock = t => lock' = t
    OBVIOUS
  <2>4. QED BY <1>0, <1>4, <2>1, <2>2, <2>3 DEF Working, Writes
<1>7. Turn(t, p, b, n, w, k)'
  BY <1>5, <1>6 DEF Turn, Fresh, Loaded, Running, Idling
<1>8. /\ p \in Places /\ messages' \in Nat /\ t # Timer
      /\ lock' = lock \/ (lock \in {t, Nobody} /\ lock' \in {t, Nobody})
  BY <1>0 DEF Places, ConvInv, TypeOK
<1>9. n.draft \in Drafts => n.draft = mem[t].draft
  OBVIOUS
<1>10. QED BY <1>4, <1>7, <1>8, <1>9, PlainStep

LEMMA CommandStep == ASSUME ConvInv, NEW t \in Turns, Command(t) PROVE ConvInv'
<1>0. PICK b \in Rows, m \in Rows, k \in Works :
        /\ b = base[t] /\ m = mem[t] /\ k = work[t]
        /\ m.state = "IDLE" /\ b.state # "MODE" /\ k.todo = NoDraft
        /\ base = [base EXCEPT ![t] = b]
        /\ written = [written EXCEPT ![t] = {}] /\ work = [work EXCEPT ![t] = k]
  BY IdleView DEF Command
<1>1. /\ pc[t] = "idle_handler" /\ pc' = [pc EXCEPT ![t] = "closing"] /\ lock' = lock
      /\ base' = [base EXCEPT ![t] = b]
      /\ written' = [written EXCEPT ![t] = {}] /\ work' = [work EXCEPT ![t] = k]
      /\ UNCHANGED <<row, timers, proposed, history, messages, faults>>
  BY <1>0 DEF Command, Goto
<1>2. PICK s \in {"IDLE", "MODE"} : mem' = [mem EXCEPT ![t] = [m EXCEPT !.state = s]]
  BY <1>0 DEF Command
<1>3. PICK n \in Rows : n = [m EXCEPT !.state = s] /\ n.state = s /\ n.draft = m.draft
  <2>1. s \in {"IDLE", "ONBOARDING", "MODE"}
    OBVIOUS
  <2>2. /\ [m EXCEPT !.state = s] \in Rows /\ [m EXCEPT !.state = s].state = s
        /\ [m EXCEPT !.state = s].draft = m.draft
    BY <2>1, StateTyped
  <2>3. QED BY <2>2
<1>4. mem' = [mem EXCEPT ![t] = n] /\ n.state \notin Confirmable /\ n.draft = mem[t].draft
  BY <1>0, <1>2, <1>3 DEF Confirmable
<1>5. /\ \A c \in {"state", "draft"} :
           Writes(base[t], mem[t], {}, c) => Writes(b, n, {}, c)
      /\ Writes(b, n, {}, "draft") => Writes(base[t], mem[t], {}, "draft")
  BY <1>0, <1>3 DEF Writes
<1>6. /\ b.draft \in {base[t].draft, mem[t].draft} /\ {} \in SUBSET Columns
      /\ k.todo = NoDraft /\ k.ran = work[t].ran /\ k.dropped = work[t].dropped
  BY <1>0
<1>7. QED BY <1>1, <1>4, <1>5, <1>6, HandledStep

\* A query writes the changed columns to the transaction.
LEMMA FlushTyped ==
  ASSUME ConvInv, NEW t \in Turns, Flush(t), NEW b \in Rows, NEW m \in Rows,
         b = base[t], m = mem[t], written[t] = {}
  PROVE  \E w \in SUBSET Columns :
           /\ written' = [written EXCEPT ![t] = w] /\ base' = [base EXCEPT ![t] = m]
           /\ \A c \in Columns : c \in w <=> Writes(b, m, {}, c)
           /\ lock \in {t, Nobody} /\ lock' = t
<1>1. Dirty(t) \in SUBSET Columns /\ \A c \in Columns : c \in Dirty(t) <=> m[c] # b[c]
  BY DEF Dirty
<1>2. written' = [written EXCEPT ![t] = Dirty(t)] /\ base' = [base EXCEPT ![t] = m]
      /\ lock \in {t, Nobody} /\ lock' = t
  BY DEF Flush, MayWrite
<1>3. QED BY <1>1, <1>2 DEF Writes

LEMMA UndoStep == ASSUME ConvInv, NEW t \in Turns, Undo(t) PROVE ConvInv'
<1>0. PICK b \in Rows, m \in Rows, k \in Works :
        /\ b = base[t] /\ m = mem[t] /\ k = work[t] /\ written[t] = {}
        /\ m.state = "IDLE" /\ k.todo = NoDraft
  BY IdleView DEF Undo
<1>1. /\ pc[t] = "idle_handler" /\ pc' = [pc EXCEPT ![t] = "closing"] /\ Flush(t)
      /\ mem' = [mem EXCEPT ![t] = [m EXCEPT !.last = NoDraft]]
      /\ work' = [work EXCEPT ![t] = [k EXCEPT !.undid = m.last]]
      /\ UNCHANGED <<row, timers, proposed, history, messages, faults>>
  BY <1>0 DEF Undo, Goto
<1>2. PICK w \in SUBSET Columns :
        /\ written' = [written EXCEPT ![t] = w] /\ base' = [base EXCEPT ![t] = m]
        /\ \A c \in Columns : c \in w <=> Writes(b, m, {}, c)
        /\ lock \in {t, Nobody} /\ lock' = t
  BY <1>0, <1>1, FlushTyped
<1>3. PICK n \in Rows : n = [m EXCEPT !.last = NoDraft] /\ n.state = m.state /\ n.draft = m.draft
  BY Operations
<1>4. PICK z \in Works : /\ z = [k EXCEPT !.undid = m.last] /\ z.todo = NoDraft
                         /\ z.ran = k.ran /\ z.dropped = k.dropped
  <2>1. m.last \in Drafts \cup {NoDraft}
    BY DEF Rows
  <2>2. PICK z \in Works : z = [k EXCEPT !.undid = m.last]
    BY <2>1, WorkTyped
  <2>3. z.todo = k.todo /\ z.ran = k.ran /\ z.dropped = k.dropped
    BY ZenonT(40), <2>1, <2>2, WorkTyped
  <2>4. QED BY <1>0, <2>2, <2>3
<1>5. /\ \A c \in {"state", "draft"} : Writes(base[t], mem[t], {}, c) => Writes(m, n, w, c)
      /\ Writes(m, n, w, "draft") => Writes(base[t], mem[t], {}, "draft")
  BY <1>0, <1>2, <1>3 DEF Writes, Columns
<1>6. /\ n.state \notin Confirmable /\ n.draft = mem[t].draft
      /\ m.draft \in {base[t].draft, mem[t].draft}
      /\ z.ran = work[t].ran /\ z.dropped = work[t].dropped
  BY <1>0, <1>3, <1>4 DEF Confirmable
<1>7. mem' = [mem EXCEPT ![t] = n] /\ work' = [work EXCEPT ![t] = z]
  BY <1>1, <1>3, <1>4
<1>8. /\ pc[t] = "idle_handler" /\ pc' = [pc EXCEPT ![t] = "closing"]
      /\ UNCHANGED <<row, timers, proposed, history, messages, faults>>
  BY <1>1
<1>9. /\ written' = [written EXCEPT ![t] = w] /\ base' = [base EXCEPT ![t] = m]
      /\ lock \in {t, Nobody} /\ lock' = t /\ z.todo = NoDraft
  BY <1>2, <1>4
<1>10. QED BY <1>5, <1>6, <1>7, <1>8, <1>9, HandledStep

LEMMA ParseStep == ASSUME ConvInv, NEW t \in Turns, Parse(t) PROVE ConvInv'
<1>0. PICK b \in Rows, m \in Rows, k \in Works :
        /\ b = base[t] /\ m = mem[t] /\ k = work[t] /\ written[t] = {}
        /\ m.state = "IDLE" /\ k.todo = NoDraft
        /\ base = [base EXCEPT ![t] = b] /\ mem = [mem EXCEPT ![t] = m]
        /\ written = [written EXCEPT ![t] = {}] /\ work = [work EXCEPT ![t] = k]
  BY IdleView DEF Parse
<1>1. /\ pc[t] = "idle_handler" /\ pc' = [pc EXCEPT ![t] = "drafting"]
      /\ mem' = [mem EXCEPT ![t] = m] /\ work' = [work EXCEPT ![t] = k]
      /\ UNCHANGED <<row, timers, proposed, history, messages, faults>>
  BY <1>0 DEF Parse, Goto
<1>2. /\ m.state \notin Confirmable /\ m.draft = mem[t].draft
      /\ k.todo = NoDraft /\ k.ran = work[t].ran /\ k.dropped = work[t].dropped
  BY <1>0 DEF Confirmable
<1>3. CASE Flush(t)
  <2>1. PICK w \in SUBSET Columns :
          /\ written' = [written EXCEPT ![t] = w] /\ base' = [base EXCEPT ![t] = m]
          /\ \A c \in Columns : c \in w <=> Writes(b, m, {}, c)
          /\ lock \in {t, Nobody} /\ lock' = t
    BY <1>0, <1>3, FlushTyped
  <2>2. /\ \A c \in {"state", "draft"} : Writes(base[t], mem[t], {}, c) => Writes(m, m, w, c)
        /\ Writes(m, m, w, "draft") => Writes(base[t], mem[t], {}, "draft")
        /\ m.draft \in {base[t].draft, mem[t].draft}
    BY <1>0, <2>1 DEF Writes, Columns
  <2>3. /\ written' = [written EXCEPT ![t] = w] /\ base' = [base EXCEPT ![t] = m]
        /\ lock \in {t, Nobody} /\ lock' = t
    BY <2>1
  <2>4. QED BY <1>1, <1>2, <2>2, <2>3, HandledStep
<1>4. CASE UNCHANGED <<lock, base, written>>
  <2>1. /\ written' = [written EXCEPT ![t] = {}] /\ base' = [base EXCEPT ![t] = b]
        /\ lock' = lock /\ {} \in SUBSET Columns
    BY <1>0, <1>4
  <2>2. /\ \A c \in {"state", "draft"} : Writes(base[t], mem[t], {}, c) => Writes(b, m, {}, c)
        /\ Writes(b, m, {}, "draft") => Writes(base[t], mem[t], {}, "draft")
        /\ b.draft \in {base[t].draft, mem[t].draft}
    BY <1>0
  <2>3. QED BY <1>1, <1>2, <2>1, <2>2, HandledStep
<1>5. QED BY <1>3, <1>4 DEF Parse

\* A turn that is about to run a draft.
LEMMA RunView ==
  ASSUME ConvInv, NEW t \in Turns, pc[t] \in {"run", "replace"}
  PROVE  \E b \in Rows, m \in Rows, k \in Works, d \in Drafts :
           /\ b = base[t] /\ m = mem[t] /\ k = work[t] /\ written[t] = {}
           /\ t # Timer /\ t \in Chats \cup Webs
           /\ m.draft = b.draft /\ m.state = b.state /\ m.last = b.last
           /\ b.state \in Confirmable /\ b.draft \in Drafts /\ b.draft \in offered
           /\ d = k.todo /\ k.ran = NoDraft /\ k.undid = NoDraft /\ k.dropped = NoDraft
           /\ d \in offered
           /\ t \in Chats => lock = t /\ b = row /\ d = row.draft
           /\ pc[t] = "replace" => t \in Chats
           /\ base = [base EXCEPT ![t] = b] /\ written = [written EXCEPT ![t] = {}]
<1>0. PICK b \in Rows, m \in Rows, w \in SUBSET Columns, k \in Works :
        /\ b = base[t] /\ m = mem[t] /\ w = written[t] /\ k = work[t]
        /\ Turn(t, pc[t], b, m, w, k)
        /\ base = [base EXCEPT ![t] = b] /\ mem = [mem EXCEPT ![t] = m]
        /\ written = [written EXCEPT ![t] = w] /\ work = [work EXCEPT ![t] = k]
        /\ offered \subseteq proposed /\ proposed \subseteq Drafts
        /\ pc[Timer] = "idle"
  BY View
<1>1. Running(t, pc[t], b, m, w, k) /\ Writing(t, b, m, w)
  BY <1>0 DEF Turn
<1>2. /\ w = {} /\ m.draft = b.draft /\ m.state = b.state /\ m.last = b.last
      /\ m.state \in Confirmable /\ m.draft \in Drafts
      /\ k.todo \in offered /\ k.ran = NoDraft /\ k.undid = NoDraft /\ k.dropped = NoDraft
      /\ t \in Chats => lock = t /\ b = row /\ k.todo = row.draft
      /\ pc[t] = "replace" => t \in Chats
      /\ b.draft \in Drafts => b.draft \in offered
  BY <1>1 DEF Running, Writing
<1>3. t # Timer /\ t \in Chats \cup Webs /\ k.todo \in Drafts
  BY <1>0, <1>2 DEF Turns
<1>4. QED BY <1>0, <1>2, <1>3

\* A turn leaves its tool with a row without a draft.
LEMMA RanStep ==
  ASSUME ConvInv, NEW t \in Turns, pc[t] \in {"run", "replace"},
         NEW n \in Rows, n.state = "IDLE", n.draft = NoDraft,
         NEW k \in Works, k.todo = NoDraft, k.undid = NoDraft, k.dropped = NoDraft,
         k.ran = NoDraft \/ (k.ran = work[t].todo /\ lock' = t),
         pc' = [pc EXCEPT ![t] = AfterRun(t)], mem' = [mem EXCEPT ![t] = n],
         work' = [work EXCEPT ![t] = k],
         lock' = lock \/ (lock \in {t, Nobody} /\ lock' \in {t, Nobody}),
         runs' \in [Drafts -> Nat], latest' \in Drafts \cup {NoDraft},
         UNCHANGED <<row, base, written, timers, proposed, offered, undone, cancelled, asked,
                     messages, faults>>
  PROVE  ConvInv'
<1>0. PICK b \in Rows, d \in Drafts :
        /\ t # Timer /\ t \in Chats \cup Webs
        /\ b.state \in Confirmable /\ b.draft \in Drafts /\ b.draft \in offered
        /\ d = work[t].todo /\ d \in offered
        /\ t \in Chats => lock = t /\ b = row /\ d = row.draft
        /\ pc[t] = "replace" => t \in Chats
        /\ base = [base EXCEPT ![t] = b] /\ written = [written EXCEPT ![t] = {}]
  BY RunView
<1>1. PICK p \in {"idle_handler", "closing"} :
        p = AfterRun(t) /\ (p = "idle_handler" => t \in Chats)
  BY <1>0 DEF AfterRun
<1>2. /\ n.state \notin Confirmable /\ n.draft \notin Drafts /\ ~NewDraft(b, n, {})
      /\ Writes(b, n, {}, "state") /\ b.state # "MODE"
  BY <1>0, DraftsDiffer DEF Confirmable, Writes, NewDraft
<1>3. Writing(t, b, n, {})'
  BY <1>0, <1>2 DEF Writing, NewDraft, Writes
<1>4. Working(t, p, b, n, {}, k)'
  <2>1. Writes(b, n, {}, "draft")
    BY <1>0, DraftsDiffer DEF Writes
  <2>2. k.ran # NoDraft => n.draft # k.ran
    OBVIOUS
  <2>3. QED BY <1>0, <1>1, <2>1, <2>2 DEF Working
<1>5. Turn(t, p, b, n, {}, k)'
  BY <1>0, <1>1, <1>2, <1>3, <1>4 DEF Turn, Fresh, Loaded, Running, Idling
<1>6. /\ base' = [base EXCEPT ![t] = b] /\ written' = [written EXCEPT ![t] = {}]
      /\ pc' = [pc EXCEPT ![t] = p] /\ p \in Places /\ {} \in SUBSET Columns
  BY <1>0, <1>1 DEF Places
<1>7. /\ lock' \in Turns \cup {Nobody} /\ \A u \in Turns \ {t} : lock = u => lock' = u
      /\ timers' \in Nat /\ messages' \in Nat /\ faults' \in Nat
      /\ proposed \subseteq proposed' /\ proposed' \subseteq Drafts
  BY DraftsDiffer DEF ConvInv, TypeOK
<1>8. t # Timer
  BY <1>0
<1>9. n.draft \in Drafts => n.draft = mem[t].draft \/ n.draft \in offered \/ n.draft \notin proposed
  BY <1>2
<1>10. UNCHANGED <<row, offered, undone, cancelled, asked>>
  OBVIOUS
<1> DEFINE w == {}
<1>11. w \in SUBSET Columns /\ written' = [written EXCEPT ![t] = w] /\ Turn(t, p, b, n, w, k)'
  BY <1>5, <1>6
<1> HIDE DEF w
<1>12. Quietly(t, p, b, n, w, k)
  BY <1>6, <1>7, <1>9, <1>10, <1>11 DEF Quietly
<1>13. QED BY <1>6, <1>8, <1>11, <1>12, QuietlyStep

LEMMA RunStep == ASSUME ConvInv, NEW t \in Turns, Run(t) PROVE ConvInv'
<1>0. PICK m \in Rows, k \in Works, d \in Drafts :
        /\ m = mem[t] /\ k = work[t] /\ d = k.todo
        /\ k.ran = NoDraft /\ k.undid = NoDraft /\ k.dropped = NoDraft
  BY RunView DEF Run
<1>1. /\ pc[t] \in {"run", "replace"} /\ MayWrite(t)
      /\ mem' = [mem EXCEPT ![t] = Executed(t, d)] /\ pc' = [pc EXCEPT ![t] = AfterRun(t)]
      /\ UNCHANGED <<row, base, written, timers, proposed, offered, undone, cancelled, asked,
                     messages, faults>>
  BY <1>0 DEF Run, Goto
<1>2. PICK n \in Rows : n = Executed(t, d) /\ n.state = "IDLE" /\ n.draft = NoDraft
  <2>1. PICK r \in Rows : Executed(t, d) = Reset(r)
    BY <1>0, RememberTyped DEF Executed
  <2>2. Reset(r) \in Rows /\ Reset(r).state = "IDLE" /\ Reset(r).draft = NoDraft
    BY Operations
  <2>3. QED BY <2>1, <2>2
<1>3. mem' = [mem EXCEPT ![t] = n]
  BY <1>1, <1>2
<1>4. runs' \in [Drafts -> Nat] /\ latest' \in Drafts \cup {NoDraft}
  <2>1. runs \in [Drafts -> Nat] /\ latest \in Drafts \cup {NoDraft}
    BY DEF ConvInv, TypeOK
  <2>2. \/ runs' = [runs EXCEPT ![d] = runs[d] + 1] /\ latest' \in {d, latest}
        \/ UNCHANGED <<runs, latest>>
    BY <1>0 DEF Run
  <2>3. QED BY <2>1, <2>2
<1>5. CASE CommitsMidway(d)
  <2>1. PICK z \in Works : z = [k EXCEPT !.todo = NoDraft]
    BY WorkTyped
  <2>2. z.todo = NoDraft /\ z.ran = NoDraft /\ z.undid = NoDraft /\ z.dropped = NoDraft
    BY <1>0, <2>1 DEF Works
  <2>3. work' = [work EXCEPT ![t] = z] /\ lock' = Nobody /\ lock \in {t, Nobody}
    BY <1>0, <1>1, <1>5, <2>1 DEF Run, MayWrite
  <2>4. QED BY <1>1, <1>2, <1>3, <1>4, <2>2, <2>3, RanStep
<1>6. CASE ~CommitsMidway(d)
  <2>1. PICK z \in Works : z = [k EXCEPT !.todo = NoDraft, !.ran = d]
    BY WorkTyped
  <2>2. z.todo = NoDraft /\ z.ran = d /\ z.undid = NoDraft /\ z.dropped = NoDraft
    BY <1>0, <2>1 DEF Works
  <2>3. work' = [work EXCEPT ![t] = z] /\ lock' = t /\ lock \in {t, Nobody}
    BY ZenonT(40), <1>0, <1>1, <1>6, <2>1 DEF Run, MayWrite
  <2>4. z.ran = work[t].todo
    BY <1>0, <2>2
  <2>5. QED BY <1>1, <1>2, <1>3, <1>4, <2>2, <2>3, <2>4, RanStep
<1>7. QED BY <1>5, <1>6

LEMMA RunFailsStep ==
  ASSUME ConvInv, NEW t \in Turns, NEW half \in BOOLEAN, RunFails(t, half)
  PROVE  ConvInv'
<1>0. PICK m \in Rows, k \in Works, d \in Drafts :
        /\ m = mem[t] /\ k = work[t] /\ d = k.todo /\ t # Timer /\ t \in Chats \cup Webs
        /\ k.ran = NoDraft /\ k.undid = NoDraft /\ k.dropped = NoDraft
        /\ t \in Chats => lock = t
  BY RunView DEF RunFails
<1>1. /\ pc[t] \in {"run", "replace"}
      /\ UNCHANGED <<row, timers, proposed, offered, undone, cancelled, asked, latest,
                     messages, faults>>
  BY DEF RunFails
<1>2. /\ runs' \in [Drafts -> Nat] /\ latest' \in Drafts \cup {NoDraft} /\ faults' \in Nat
      /\ lock' = lock \/ (lock \in {t, Nobody} /\ lock' \in {t, Nobody})
  <2>1. runs \in [Drafts -> Nat] /\ latest \in Drafts \cup {NoDraft} /\ faults \in Nat
    BY DEF ConvInv, TypeOK
  <2>2. runs' = [runs EXCEPT ![d] = runs[d] + 1] \/ runs' = runs
    BY <1>0 DEF RunFails
  <2>3. lock' = lock \/ (lock \in {t, Nobody} /\ lock' \in {t, Nobody})
    BY DEF RunFails, MayWrite, Unlock
  <2>4. QED BY <1>1, <2>1, <2>2, <2>3
<1>3. CASE t \in Webs
  <2>1. EndOfTurn(t)
    BY <1>3 DEF RunFails
  <2>2. lock' \in Turns \cup {Nobody} /\ \A u \in Turns \ {t} : lock = u => lock' = u
    BY <1>2, DraftsDiffer DEF ConvInv, TypeOK
  <2>3. QED BY <1>0, <1>1, <1>2, <2>1, <2>2, EndStep
<1>4. CASE t \notin Webs
  <2>1. PICK z \in Works : z = [k EXCEPT !.todo = NoDraft]
    BY WorkTyped
  <2>2. z.todo = NoDraft /\ z.ran = NoDraft /\ z.undid = NoDraft /\ z.dropped = NoDraft
    BY <1>0, <2>1 DEF Works
  <2>3. PICK n \in Rows : n = Reset(m) /\ n.state = "IDLE" /\ n.draft = NoDraft
    BY Operations
  <2>4. /\ work' = [work EXCEPT ![t] = z] /\ mem' = [mem EXCEPT ![t] = n]
        /\ pc' = [pc EXCEPT ![t] = AfterRun(t)] /\ UNCHANGED <<base, written>>
    BY <1>0, <1>4, <2>1, <2>3 DEF RunFails, Goto
  <2>5. QED BY <1>1, <1>2, <2>2, <2>3, <2>4, RanStep
<1>5. QED BY <1>3, <1>4

LEMMA WebConfirmStep ==
  ASSUME ConvInv, NEW t \in Webs, NEW d \in Drafts, WebConfirm(t, d)
  PROVE  ConvInv'
<1>0. t \in Turns /\ t # Timer /\ t \notin Chats
  BY DraftsDiffer DEF Turns
<1>1. PICK b \in Rows, m \in Rows, w \in SUBSET Columns, k \in Works :
        /\ Turn(t, pc[t], b, m, w, k)
        /\ written = [written EXCEPT ![t] = w] /\ k = work[t]
        /\ row \in Rows
        /\ row.draft \in Drafts => row.draft \in offered
        /\ ConfirmableHasDraft
  BY <1>0, View
<1>2. /\ pc[t] = "idle" /\ d \in offered /\ row.state = "WAITING_CONFIRM"
      /\ base' = [base EXCEPT ![t] = row] /\ mem' = [mem EXCEPT ![t] = row]
      /\ pc' = [pc EXCEPT ![t] = "run"] /\ messages' = messages + 1 /\ lock' = lock
      /\ work' = [work EXCEPT ![t].todo = d]
      /\ UNCHANGED <<row, written, timers, proposed, offered, runs, undone, cancelled, asked,
                     latest, faults>>
  BY DEF WebConfirm, Goto, history
<1>3. w = {} /\ k = NoWork
  BY <1>1, <1>2 DEF Turn, Fresh
<1>4. PICK r \in Rows : r = row
  BY <1>1
<1>5. r.state \in Confirmable /\ r.draft \in Drafts /\ r.draft \in offered
  BY <1>1, <1>2, <1>4 DEF ConfirmableHasDraft, Confirmable
<1>6. PICK z \in Works : z = [k EXCEPT !.todo = d]
  BY WorkTyped
<1>7. z.todo = d /\ z.ran = NoDraft /\ z.undid = NoDraft /\ z.dropped = NoDraft
  BY <1>3, <1>6 DEF Works, NoWork
<1>8. Writing(t, r, r, {})'
  <2>1. \A c : ~Writes(r, r, {}, c)
    BY DEF Writes
  <2>2. QED BY <1>2, <1>5, <2>1 DEF Writing, NewDraft, Writes
<1>9. Turn(t, "run", r, r, {}, z)'
  BY <1>0, <1>2, <1>5, <1>7, <1>8 DEF Turn, Fresh, Loaded, Running, Idling, Working
<1>10. /\ base' = [base EXCEPT ![t] = r] /\ mem' = [mem EXCEPT ![t] = r]
       /\ written' = [written EXCEPT ![t] = {}] /\ work' = [work EXCEPT ![t] = z]
  BY <1>1, <1>2, <1>3, <1>4, <1>6
<1>11. /\ "run" \in Places /\ {} \in SUBSET Columns /\ messages' \in Nat
       /\ r.draft \in Drafts => r.draft \in offered
  BY <1>2, <1>5 DEF Places, ConvInv, TypeOK
<1>12. /\ UNCHANGED <<row, offered, undone, cancelled, asked, runs, latest, timers, proposed,
                      faults>>
       /\ pc' = [pc EXCEPT ![t] = "run"] /\ lock' = lock
  BY <1>2
<1>13. QED BY <1>0, <1>9, <1>10, <1>11, <1>12, PlainStep

-----------------------------------------------------------------------------
(* Commits *)

\* What a commit leaves: the columns the turn writes, and the rest of the row.
LEMMA CommitTyped ==
  ASSUME ConvInv, NEW t \in Turns, Commit(t),
         NEW b \in Rows, NEW m \in Rows, NEW w \in SUBSET Columns, NEW k \in Works,
         b = base[t], m = mem[t], w = written[t], k = work[t]
  PROVE  /\ row' \in Rows /\ row'.ts # "aware"
         /\ row'.state = IF Writes(b, m, w, "state") THEN m.state ELSE row.state
         /\ row'.draft = IF Writes(b, m, w, "draft") THEN m.draft ELSE row.draft
         /\ row'.last = IF Writes(b, m, w, "last") THEN m.last ELSE row.last
         /\ asked' = IF Writes(b, m, w, "state") \/ Writes(b, m, w, "draft")
                       THEN IF m.state \in Confirmable THEN m.draft ELSE NoDraft
                       ELSE asked
         /\ lock \in {t, Nobody} /\ lock' = Nobody
         /\ offered' = offered \cup ({m.draft} \cap Drafts)
         /\ cancelled' = cancelled \cup ({k.dropped} \ {NoDraft})
         /\ undone' = undone \cup ({k.undid} \ {NoDraft})
         /\ runs' = [d \in Drafts |-> runs[d] + IF d = k.ran THEN 1 ELSE 0]
         /\ latest' = IF k.ran \in Tracked THEN k.ran ELSE latest
<1> DEFINE W == written[t] \cup Dirty(t)
<1>1. \A c \in Columns : c \in W <=> Writes(b, m, w, c)
  BY DEF Dirty, Writes
<1>2. "state" \in Columns /\ "draft" \in Columns /\ "last" \in Columns
  BY DEF Columns
<1>3. row' = Merge(m, W)
  BY DEF Commit
<1>4. row \in Rows
  BY DEF ConvInv, TypeOK
<1>5. /\ row' \in Rows /\ row'.ts # "aware"
      /\ row'.state = IF "state" \in W THEN m.state ELSE row.state
      /\ row'.draft = IF "draft" \in W THEN m.draft ELSE row.draft
      /\ row'.last = IF "last" \in W THEN m.last ELSE row.last
  BY <1>3, <1>4, MergeTyped
<1>6. asked' = IF "state" \in W \/ "draft" \in W
                 THEN IF m.state \in Confirmable THEN m.draft ELSE NoDraft
                 ELSE asked
  <2>1. asked' = IF W \cap {"state", "draft"} = {} THEN asked
                 ELSE IF m.state \in Confirmable THEN m.draft
                 ELSE NoDraft
    BY DEF Commit
  <2>2. W \cap {"state", "draft"} = {} <=> ~("state" \in W \/ "draft" \in W)
    OBVIOUS
  <2>3. QED BY <2>1, <2>2
<1>7. /\ lock \in {t, Nobody} /\ lock' = Nobody
      /\ offered' = offered \cup ({m.draft} \cap Drafts)
      /\ cancelled' = cancelled \cup ({k.dropped} \ {NoDraft})
      /\ undone' = undone \cup ({k.undid} \ {NoDraft})
      /\ runs' = [d \in Drafts |-> runs[d] + IF d = k.ran THEN 1 ELSE 0]
      /\ latest' = IF k.ran \in Tracked THEN k.ran ELSE latest
  BY DEF Commit, MayWrite
<1> HIDE DEF W
<1>8. QED BY <1>1, <1>2, <1>5, <1>6, <1>7

\* A commit leaves a row that is sound, whatever the other sessions wrote before.
LEMMA CommittedRow ==
  ASSUME ConvInv, NEW t \in Turns, Commit(t)
  PROVE  /\ ConfirmableHasDraft'
         /\ row'.draft \in Drafts => row'.draft \in offered'
         /\ cancelled' \subseteq offered' /\ row'.draft \notin cancelled'
<1>0. PICK b \in Rows, m \in Rows, w \in SUBSET Columns, k \in Works :
        /\ b = base[t] /\ m = mem[t] /\ w = written[t] /\ k = work[t]
        /\ Turn(t, pc[t], b, m, w, k)
        /\ row.draft \in Drafts => row.draft \in offered
        /\ ConfirmableHasDraft
  BY View
<1>1. /\ row'.state = IF Writes(b, m, w, "state") THEN m.state ELSE row.state
      /\ row'.draft = IF Writes(b, m, w, "draft") THEN m.draft ELSE row.draft
      /\ offered' = offered \cup ({m.draft} \cap Drafts)
      /\ cancelled' = cancelled \cup ({k.dropped} \ {NoDraft})
  BY <1>0, CommitTyped
<1>2. Writing(t, b, m, w) /\ Working(t, pc[t], b, m, w, k)
  BY <1>0 DEF Turn
<1>3. /\ cancelled \subseteq offered /\ row.draft \notin cancelled /\ cancelled \subseteq Drafts
  BY DEF ConvInv, RowSound, TypeOK
<1>4. ConfirmableHasDraft'
  <2> SUFFICES ASSUME row'.state \in Confirmable PROVE row'.draft \in Drafts
    BY DEF ConfirmableHasDraft, Confirmable
  <2>1. CASE Writes(b, m, w, "state")
    BY <1>1, <1>2, <2>1 DEF Writing, NewDraft
  <2>2. CASE ~Writes(b, m, w, "state")
    <3>1. row.state \in Confirmable /\ row.draft \in Drafts
      BY <1>0, <1>1, <2>2 DEF ConfirmableHasDraft
    <3>2. Writes(b, m, w, "draft") => m.draft \in Drafts
      BY <1>2, <2>2, <3>1 DEF Writing
    <3>3. QED BY <1>1, <3>1, <3>2
  <2>3. QED BY <2>1, <2>2
<1>5. row'.draft \in Drafts => row'.draft \in offered'
  BY <1>0, <1>1
<1>6. cancelled' \subseteq offered'
  BY <1>1, <1>2, <1>3 DEF Working
<1>7. row'.draft \notin cancelled'
  <2>1. CASE Writes(b, m, w, "draft")
    <3>1. m.draft \notin cancelled
      BY <1>2, <1>3, <2>1 DEF Writing, NewDraft
    <3>2. k.dropped # NoDraft => m.draft # k.dropped
      BY <1>2 DEF Working
    <3>3. QED BY <1>1, <2>1, <3>1, <3>2
  <2>2. CASE ~Writes(b, m, w, "draft")
    <3>1. k.dropped = NoDraft
      BY <1>2, <2>2 DEF Working
    <3>2. QED BY <1>1, <1>3, <2>2, <3>1
  <2>3. QED BY <2>1, <2>2
<1>8. QED BY <1>4, <1>5, <1>6, <1>7

\* A turn commits and is then at p with what it has left in memory.
LEMMA CommitStep ==
  ASSUME ConvInv, NEW t \in Turns, t # Timer, Commit(t),
         NEW p \in Places, NEW n \in Rows, NEW r \in Rows, n.draft \notin Drafts \/ n.draft = mem[t].draft,
         pc' = [pc EXCEPT ![t] = p], base' = [base EXCEPT ![t] = r],
         mem' = [mem EXCEPT ![t] = n], written' = [written EXCEPT ![t] = {}],
         work' = [work EXCEPT ![t] = NoWork],
         UNCHANGED <<timers, proposed, messages, faults>>,
         Turn(t, p, r, n, {}, NoWork)'
  PROVE  ConvInv'
<1>0. PICK b \in Rows, m \in Rows, w \in SUBSET Columns, k \in Works :
        /\ b = base[t] /\ m = mem[t] /\ w = written[t] /\ k = work[t]
        /\ m.draft \in Drafts => m.draft \in proposed
        /\ Turn(t, pc[t], b, m, w, k)
  BY View
<1>1. /\ row' \in Rows /\ row'.ts # "aware" /\ lock \in {t, Nobody} /\ lock' = Nobody
      /\ offered' = offered \cup ({m.draft} \cap Drafts)
      /\ cancelled' = cancelled \cup ({k.dropped} \ {NoDraft})
      /\ undone' = undone \cup ({k.undid} \ {NoDraft})
      /\ runs' = [d \in Drafts |-> runs[d] + IF d = k.ran THEN 1 ELSE 0]
      /\ latest' = IF k.ran \in Tracked THEN k.ran ELSE latest
      /\ asked' = IF Writes(b, m, w, "state") \/ Writes(b, m, w, "draft")
                       THEN IF m.state \in Confirmable THEN m.draft ELSE NoDraft
                       ELSE asked
  BY <1>0, CommitTyped
<1>2. TypeOK'
  <2>1. /\ k.dropped \in Drafts \cup {NoDraft} /\ k.undid \in Drafts \cup {NoDraft}
        /\ k.ran \in Drafts \cup {NoDraft}
    BY DEF Works
  <2>2. /\ undone' \subseteq Drafts /\ cancelled' \subseteq Drafts
        /\ latest' \in Drafts \cup {NoDraft}
    BY <1>1, <2>1 DEF ConvInv, TypeOK
  <2>3. proposed' \subseteq Drafts /\ offered' \subseteq proposed'
    BY <1>0, <1>1 DEF ConvInv, TypeOK
  <2>4. runs' \in [Drafts -> Nat]
    BY <1>1 DEF ConvInv, TypeOK
  <2>5. asked' \in Drafts \cup {NoDraft}
    <3>1. asked \in Drafts \cup {NoDraft}
      BY DEF ConvInv, TypeOK
    <3>2. ASSUME Writes(b, m, w, "state") \/ Writes(b, m, w, "draft"), m.state \in Confirmable
          PROVE  m.draft \in Drafts
      BY <1>0, <3>2 DEF Turn, Writing, NewDraft
    <3>3. QED BY <1>1, <3>1, <3>2
  <2>6. pc' \in [Turns -> Places]
    BY DEF ConvInv, TypeOK, Places
  <2>7. /\ base' \in [Turns -> Rows] /\ mem' \in [Turns -> Rows]
        /\ written' \in [Turns -> SUBSET Columns] /\ work' \in [Turns -> Works]
    BY EmptyTyped DEF ConvInv, TypeOK
  <2>8. timers' \in Nat /\ messages' \in Nat /\ faults' \in Nat /\ lock' \in Turns \cup {Nobody}
    BY <1>1 DEF ConvInv, TypeOK
  <2>9. QED BY <1>1, <2>2, <2>3, <2>4, <2>5, <2>6, <2>7, <2>8 DEF TypeOK, Places
<1>3. /\ ConfirmableHasDraft'
      /\ row'.draft \in Drafts => row'.draft \in offered'
      /\ cancelled' \subseteq offered' /\ row'.draft \notin cancelled'
  BY CommittedRow
<1>4. /\ \A u \in Turns \ {t} : lock = u => lock' = u /\ row' = row
      /\ offered \subseteq offered' /\ offered' \subseteq offered \cup {mem[t].draft}
      /\ proposed \subseteq proposed'
      /\ NoWork \in Works /\ {} \in SUBSET Columns
  BY <1>0, <1>1, DraftsDiffer, EmptyTyped
<1>5. n.draft \in Drafts => n.draft = mem[t].draft \/ n.draft \in offered \/ n.draft \notin proposed
  OBVIOUS
<1>6. QED BY <1>2, <1>3, <1>4, <1>5, TurnStep

\* A turn commits and ends.
LEMMA CommitAndEndStep ==
  ASSUME ConvInv, NEW t \in Turns, t # Timer, Commit(t), EndOfTurn(t),
         UNCHANGED <<timers, proposed, messages, faults>>
  PROVE  ConvInv'
<1>1. PICK n \in Rows : n = EmptyRow /\ n.draft \notin Drafts
  BY EmptyTyped, DraftsDiffer
<1>2. Turn(t, "idle", n, n, {}, NoWork)'
  BY <1>1, NoTurn
<1>3. /\ pc' = [pc EXCEPT ![t] = "idle"] /\ base' = [base EXCEPT ![t] = n]
      /\ mem' = [mem EXCEPT ![t] = n] /\ written' = [written EXCEPT ![t] = {}]
      /\ work' = [work EXCEPT ![t] = NoWork] /\ "idle" \in Places
  BY <1>1 DEF EndOfTurn, Places
<1>4. QED BY <1>1, <1>2, <1>3, CommitStep

LEMMA CloseStep == ASSUME ConvInv, NEW t \in Turns, Close(t) PROVE ConvInv'
BY CommitAndEndStep DEF Close, ConvInv, RowSound

LEMMA ShareLocationStep == ASSUME ConvInv, NEW t \in Turns, ShareLocation(t) PROVE ConvInv'
BY CommitAndEndStep DEF ShareLocation, ConvInv, RowSound

\* A handler commits; the tool of a mode and a joined business leave the row in
\* memory, a good code resets it.
LEMMA MidwayStep ==
  ASSUME ConvInv, NEW t \in Turns, t # Timer, CommitAndGoOn(t),
         NEW m \in Rows, m = mem[t], NEW n \in Rows,
         mem' = [mem EXCEPT ![t] = n],
         n = m \/ (m.state \in {"ONBOARDING"} /\ n.state = "IDLE" /\ n.draft = NoDraft)
  PROVE  ConvInv'
<1>1. /\ Commit(t) /\ pc' = [pc EXCEPT ![t] = "closing"]
      /\ base' = [base EXCEPT ![t] = m] /\ written' = [written EXCEPT ![t] = {}]
      /\ work' = [work EXCEPT ![t] = NoWork] /\ "closing" \in Places
      /\ UNCHANGED <<timers, proposed, messages, faults>>
  BY DEF CommitAndGoOn, Goto, Places
<1>2. m.draft \in Drafts => m.draft \in offered'
  BY <1>1 DEF Commit
<1>3. /\ n.draft \in Drafts => n = m /\ n.draft = mem[t].draft
      /\ ~NewDraft(m, n, {})
      /\ Writes(m, n, {}, "state") => n.state \notin Confirmable
      /\ Writes(m, n, {}, "draft") => Writes(m, n, {}, "state") /\ n.state \notin Confirmable
  BY DraftsDiffer DEF Writes, NewDraft, Confirmable
<1>4. Writing(t, m, n, {})'
  BY <1>2, <1>3 DEF Writing, NewDraft, Writes
<1>5. Turn(t, "closing", m, n, {}, NoWork)'
  BY <1>4, EmptyTyped DEF Turn, Fresh, Loaded, Running, Idling, Working
<1>6. n.draft \notin Drafts \/ n.draft = mem[t].draft
  BY <1>3
<1>7. QED BY <1>1, <1>5, <1>6, CommitStep

LEMMA HandlerCommitsStep == ASSUME ConvInv, NEW t \in Turns, HandlerCommits(t) PROVE ConvInv'
<1>1. PICK m \in Rows : m = mem[t] /\ mem = [mem EXCEPT ![t] = m]
  BY View
<1>2. mem' = [mem EXCEPT ![t] = m] /\ CommitAndGoOn(t) /\ t # Timer
  BY <1>1 DEF HandlerCommits, ConvInv, RowSound
<1>3. QED BY <1>1, <1>2, MidwayStep

LEMMA GoodCodeStep == ASSUME ConvInv, NEW t \in Turns, Join(t) PROVE ConvInv'
<1>1. PICK m \in Rows : m = mem[t] /\ m.state = "ONBOARDING"
  BY TurnTyped DEF Join
<1>2. PICK n \in Rows : n = Reset(m) /\ n.state = "IDLE" /\ n.draft = NoDraft
  BY Operations
<1>3. mem' = [mem EXCEPT ![t] = n] /\ CommitAndGoOn(t) /\ t # Timer
  BY <1>1, <1>2 DEF Join, ConvInv, RowSound
<1>4. QED BY <1>1, <1>2, <1>3, MidwayStep

-----------------------------------------------------------------------------
(* The invariant of every run *)

LEMMA ConvInit == ASSUME Init PROVE ConvInv
<1>1. TypeOK
  BY EmptyTyped DEF Init, TypeOK
<1>2. RowSound
  BY EmptyTyped, DraftsDiffer DEF Init, RowSound, ConfirmableHasDraft, Confirmable, Turns
<1>3. TurnsSound
  <2> SUFFICES ASSUME NEW t \in Turns
               PROVE  Turn(t, pc[t], base[t], mem[t], written[t], work[t])
    BY DEF TurnsSound
  <2>1. Turn(t, "idle", EmptyRow, EmptyRow, {}, NoWork)
    BY NoTurn
  <2>2. /\ pc[t] = "idle" /\ base[t] = EmptyRow /\ mem[t] = EmptyRow
        /\ written[t] = {} /\ work[t] = NoWork
    BY DEF Init
  <2>3. QED BY <2>1, <2>2
<1>4. QED BY <1>1, <1>2, <1>3 DEF ConvInv

LEMMA DispatchStep == ASSUME ConvInv, NEW t \in Turns, Dispatch(t) PROVE ConvInv'
BY ShareLocationStep, ConfirmYesStep, ConfirmOtherStep, OnboardStep, GoodCodeStep,
   InModeStep, GoIdleStep DEF Dispatch

LEMMA ProceedStep == ASSUME ConvInv, NEW t \in Turns, Proceed(t) PROVE ConvInv'
BY LoadStep, DispatchStep, RunStep, RunFailsStep, HandlerCommitsStep, CommandStep, UndoStep,
   ParseStep, AnswerStep, DraftStep, CloseStep DEF Proceed

LEMMA ConvStep == ConvInv /\ [Next]_vars => ConvInv'
<1> SUFFICES ASSUME ConvInv, [Next]_vars PROVE ConvInv'
  OBVIOUS
<1>1. CASE Next
  BY <1>1, ArriveStep, ProceedStep, FailStep, LockTimeoutStep, WebConfirmStep, TimerFiresStep,
     CrashStep DEF Next
<1>2. CASE UNCHANGED vars
  <2>1. TypeOK'
    BY <1>2 DEF vars, ConvInv, TypeOK
  <2>2. RowSound' /\ TurnsSound'
    BY <1>2 DEF vars, ConvInv, RowSound, ConfirmableHasDraft, TurnsSound, Turn, Fresh, Loaded,
                Running, Idling, Writing, NewDraft, Working, Writes
  <2>3. QED BY <2>1, <2>2 DEF ConvInv
<1>3. QED BY <1>1, <1>2

\* However turns, web requests, faults and crashes overlap: a row that awaits a
\* confirmation holds an offered draft, and each session knows what its next
\* commit will do to the row.
THEOREM ConversationInvariant == Spec => []ConvInv
<1>1. QED BY ConvInit, ConvStep, PTL DEF Spec

\* Every variable has its type; a time in the database has no offset.
THEOREM ConversationTypeOK == Spec => []TypeOK
<1>1. ConvInv => TypeOK
  BY DEF ConvInv
<1>2. QED BY <1>1, ConversationInvariant, PTL

\* A row that awaits a confirmation holds a draft, though sessions that loaded
\* different versions of the row each write some of its columns
\* (handle_message, /send and /execute on one conversation_states row).
THEOREM ConversationConfirmableHasDraft == Spec => []ConfirmableHasDraft
<1>1. ConvInv => ConfirmableHasDraft
  BY DEF ConvInv, RowSound
<1>2. QED BY <1>1, ConversationInvariant, PTL

-----------------------------------------------------------------------------
(* What webhook turns execute *)

\* Only a commit or the tool of a turn executes a draft, and it moves that turn.
LEMMA RunsBy ==
  ASSUME ConvInv, Next, NEW t \in Chats, NEW d \in Drafts,
         pc'[t] # pc[t], runs'[d] # runs[d]
  PROVE  \/ Commit(t) /\ work[t].ran = d
         \/ pc[t] \in {"run", "replace"} /\ work[t].todo = d
<1>1. t \in Turns /\ t \notin Webs /\ t # Timer
  BY DraftsDiffer DEF Turns
<1>2. runs \in [Drafts -> Nat] /\ pc \in [Turns -> Places]
  BY DEF ConvInv, TypeOK, Places
<1>3. ASSUME NEW u \in Turns, NEW p, pc' = [pc EXCEPT ![u] = p] PROVE u = t
  BY <1>1, <1>2, <1>3
<1>4. ASSUME NEW u \in Turns, Commit(u) PROVE work[u].ran = d
  <2>1. runs'[d] = runs[d] + IF d = work[u].ran THEN 1 ELSE 0
    BY <1>4 DEF Commit
  <2>2. QED BY <1>2, <2>1
<1>5. ASSUME NEW u \in Turns, Run(u) \/ \E half \in BOOLEAN : RunFails(u, half)
      PROVE  pc[u] \in {"run", "replace"} /\ work[u].todo = d
  <2>1. runs'[d] = runs[d] \/ runs' = [runs EXCEPT ![work[u].todo] = @ + 1]
    BY <1>5 DEF Run, RunFails
  <2>2. pc[u] \in {"run", "replace"}
    BY <1>5 DEF Run, RunFails
  <2>3. QED BY <1>2, <2>1, <2>2
<1>6. ASSUME NEW u \in Turns, Proceed(u) PROVE \E p : pc' = [pc EXCEPT ![u] = p]
  <2>1. ASSUME NEW place, Begin(u, place) PROVE \E p : pc' = [pc EXCEPT ![u] = p]
    BY <2>1 DEF Begin, Goto
  <2>2. Dispatch(u) => \E p : pc' = [pc EXCEPT ![u] = p]
    BY <2>1 DEF Dispatch, ShareLocation, EndOfTurn, ConfirmYes, ConfirmOther, Onboard, Join,
               CommitAndGoOn, InMode, GoIdle, Goto
  <2>3. QED BY <1>6, <2>2 DEF Proceed, Load, Run, RunFails, HandlerCommits, CommitAndGoOn,
               Command, Undo, Parse, Answer, Draft, Close, EndOfTurn, Goto
<1>7. ASSUME NEW u \in Turns, Proceed(u)
      PROVE  \/ Commit(u) \/ Run(u) \/ \E half \in BOOLEAN : RunFails(u, half)
             \/ runs' = runs
  <2>1. Dispatch(u) => Commit(u) \/ runs' = runs
    BY DEF Dispatch, ShareLocation, ConfirmYes, ConfirmOther, Onboard, Join,
               CommitAndGoOn, InMode, GoIdle, history
  <2>2. QED BY <1>7, <2>1 DEF Proceed, Load, HandlerCommits, CommitAndGoOn,
               Command, Undo, Parse, Answer, Draft, Close, history
<1>8. ASSUME NEW u \in Turns, Proceed(u)
      PROVE  \/ Commit(t) /\ work[t].ran = d
             \/ pc[t] \in {"run", "replace"} /\ work[t].todo = d
  <2>1. u = t
    BY <1>3, <1>6, <1>8
  <2>2. QED BY <1>4, <1>5, <1>7, <1>8, <2>1
<1>9. ASSUME NEW u \in Turns, Arrive(u) \/ Fail(u) \/ LockTimeout(u) PROVE runs' = runs
  BY <1>9 DEF Arrive, Fail, LockTimeout, history
<1>10. \A u \in Webs, e \in Drafts : WebConfirm(u, e) => runs' = runs
  BY DEF WebConfirm, history
<1>11. (TimerFires \/ Crash) => runs' = runs
  BY DEF TimerFires, Crash, history
<1>12. QED BY <1>8, <1>9, <1>10, <1>11 DEF Next

LEMMA ChatRunsOffered ==
  ASSUME ConvInv, Next, NEW t \in Chats, NEW d \in Drafts,
         pc'[t] # pc[t], runs'[d] # runs[d]
  PROVE  row.state \in Confirmable /\ row.draft = d
<1>1. t \in Turns
  BY DEF Turns
<1>2. CASE Commit(t) /\ work[t].ran = d
  <2>1. Working(t, pc[t], base[t], mem[t], written[t], work[t])
    BY <1>1, TurnTyped DEF Turn
  <2>2. QED BY <1>2, <2>1, DraftsDiffer DEF Working
<1>3. CASE pc[t] \in {"run", "replace"} /\ work[t].todo = d
  BY <1>1, <1>3, RunView
<1>4. QED BY <1>2, <1>3, RunsBy

\* A webhook turn executes a draft only while the committed row still offers it
\* (handle_message reads the row under the write lock and keeps it to the
\* commit, whichever tools commit midway).
THEOREM ConversationChatRunsPending == Spec => ChatRunsPending
<1>1. ConvInv /\ [Next]_vars =>
        [\A t \in Chats, d \in Drafts :
           pc'[t] # pc[t] /\ runs'[d] # runs[d] => row.state \in Confirmable /\ row.draft = d]_vars
  BY ChatRunsOffered
<1>2. QED BY <1>1, ConversationInvariant, PTL DEF Spec, ChatRunsPending

\* Once the user has been told that a draft is cancelled, no webhook turn
\* executes it, however the turns and the web chat overlap.
THEOREM ConversationCancelledStaysCancelled == Spec => CancelledStaysCancelled
<1>1. ConvInv /\ [Next]_vars =>
        [\A t \in Chats, d \in cancelled : pc'[t] # pc[t] => runs'[d] = runs[d]]_vars
  <2>1. ConvInv => cancelled \subseteq Drafts /\ row.draft \notin cancelled
    BY DEF ConvInv, TypeOK, RowSound
  <2>2. QED BY <2>1, ChatRunsOffered
<1>2. QED BY <1>1, ConversationInvariant, PTL DEF Spec, CancelledStaysCancelled

-----------------------------------------------------------------------------
(* Turns one after the other: webhook turns only, and tools that leave the  *)
(* commit to the turn.  A turn then keeps the lock from the moment it reads *)
(* the row until it commits, so it sees the row it is going to replace.     *)

Serial == Webs = {} /\ Committing = {}

Begun(p) == p \notin {"idle", "arrived"}

\* What a turn holding the lock did not flush is as in the row.
Exact(t, p, b, w) ==
  (Begun(p) /\ lock = t) => \A c \in {"state", "draft", "last"} \ w : b[c] = row[c]

\* A turn without the lock has committed and has at most a reset left to write.
Left(t, p, b, m, w, k) ==
  (Begun(p) /\ lock # t) =>
    /\ p = "closing" /\ w = {} /\ k = NoWork /\ m.last = b.last
    /\ \/ m.state = b.state /\ m.draft = b.draft
       \/ m.state = "IDLE" /\ b.state # "IDLE" /\ m.draft = NoDraft

\* A turn asks only for a draft of its own; a draft it ran or dropped is the one
\* the row offers, and it overwrites it.
Asking(t, p, b, m, w, k) ==
  (lock = t /\ p \in {"idle_handler", "drafting", "closing"}) =>
    /\ m.state \in Confirmable => NewDraft(b, m, w)
    /\ k.ran # NoDraft => Writes(b, m, w, "draft")
    /\ k.dropped # NoDraft => row.state \in Confirmable /\ row.draft = k.dropped
    /\ k.ran = NoDraft \/ k.dropped = NoDraft

\* The metadata for undo is that of the last tracked action, or gone.
Undoing(t, p, m, k) ==
  (Begun(p) /\ lock = t) =>
    LET last == IF k.ran \in Tracked THEN k.ran ELSE latest
    IN  m.last \in {last, NoDraft} /\ k.undid \in {last, NoDraft}

SerialTurn(t, p, b, m, w, k) ==
  Exact(t, p, b, w) /\ Left(t, p, b, m, w, k) /\ Asking(t, p, b, m, w, k) /\ Undoing(t, p, m, k)

\* The draft in the row was never executed.
SerialRow == /\ AskedIsPending
             /\ \A d \in Drafts : runs[d] # 0 => d \in offered
             /\ row.draft \in Drafts => runs[row.draft] = 0
             /\ row.last \in {latest, NoDraft}

SerialTurns ==
  \A t \in Turns : SerialTurn(t, pc[t], base[t], mem[t], written[t], work[t])

SerialInv == ConvInv /\ SerialRow /\ SerialTurns

LEMMA SerialView ==
  ASSUME SerialInv, NEW t \in Turns
  PROVE  \E p \in Places, b \in Rows, m \in Rows, w \in SUBSET Columns, k \in Works :
           /\ p = pc[t] /\ b = base[t] /\ m = mem[t] /\ w = written[t] /\ k = work[t]
           /\ Turn(t, p, b, m, w, k) /\ SerialTurn(t, p, b, m, w, k)
BY TurnTyped DEF SerialInv, SerialTurns

LEMMA AfterView ==
  ASSUME ConvInv', NEW t \in Turns
  PROVE  \E p \in Places, b \in Rows, m \in Rows, w \in SUBSET Columns, k \in Works :
           /\ p = pc'[t] /\ b = base'[t] /\ m = mem'[t] /\ w = written'[t] /\ k = work'[t]
BY DEF ConvInv, TypeOK, Places

\* A step of turn t leaves the other turns, and the row and the lock of one that
\* holds it.
LEMMA SerialStep ==
  ASSUME SerialInv, ConvInv', SerialRow', NEW t \in Turns,
         \A u \in Turns \ {t} : /\ pc'[u] = pc[u] /\ base'[u] = base[u] /\ mem'[u] = mem[u]
                                /\ written'[u] = written[u] /\ work'[u] = work[u],
         \A u \in Turns \ {t} : lock' = u <=> lock = u,
         \A u \in Turns \ {t} : lock = u => row' = row /\ latest' = latest,
         NEW p, NEW b, NEW m, NEW w, NEW k,
         p = pc'[t], b = base'[t], m = mem'[t], w = written'[t], k = work'[t],
         SerialTurn(t, p, b, m, w, k)'
  PROVE  SerialInv'
<1>1. ASSUME NEW u \in Turns, u # t
      PROVE  SerialTurn(u, pc[u], base[u], mem[u], written[u], work[u])'
  <2>1. PICK q \in Places, a \in Rows, n \in Rows, v \in SUBSET Columns, j \in Works :
          /\ q = pc[u] /\ a = base[u] /\ n = mem[u] /\ v = written[u] /\ j = work[u]
          /\ SerialTurn(u, q, a, n, v, j)
    BY SerialView
  <2>2. /\ q = pc'[u] /\ a = base'[u] /\ n = mem'[u] /\ v = written'[u] /\ j = work'[u]
        /\ lock' = u <=> lock = u
    BY <1>1, <2>1
  <2>3. lock = u => row' = row /\ latest' = latest
    BY <1>1
  <2>4. SerialTurn(u, q, a, n, v, j)'
    BY <2>1, <2>2, <2>3
       DEF SerialTurn, Exact, Left, Asking, Undoing, Begun, NewDraft, Writes
  <2>5. QED BY <2>2, <2>4
            DEF SerialTurn, Exact, Left, Asking, Undoing, Begun, NewDraft, Writes
<1>2. SerialTurn(t, pc[t], base[t], mem[t], written[t], work[t])'
  BY DEF SerialTurn, Exact, Left, Asking, Undoing, Begun, NewDraft, Writes
<1>3. QED BY <1>1, <1>2 DEF SerialInv, SerialTurns

LEMMA QuietSerial ==
  ASSUME SerialInv, ConvInv', NEW t \in Turns,
         \A u \in Turns \ {t} : /\ pc'[u] = pc[u] /\ base'[u] = base[u] /\ mem'[u] = mem[u]
                                /\ written'[u] = written[u] /\ work'[u] = work[u],
         lock' = lock \/ (lock \in {t, Nobody} /\ lock' \in {t, Nobody}),
         UNCHANGED <<row, offered, runs, asked, latest>>,
         NEW p, NEW b, NEW m, NEW w, NEW k,
         p = pc'[t], b = base'[t], m = mem'[t], w = written'[t], k = work'[t],
         SerialTurn(t, p, b, m, w, k)'
  PROVE  SerialInv'
<1>1. SerialRow'
  BY DEF SerialInv, SerialRow, AskedIsPending
<1>2. \A u \in Turns \ {t} : lock' = u <=> lock = u
  BY DraftsDiffer
<1>3. \A u \in Turns \ {t} : lock = u => row' = row /\ latest' = latest
  OBVIOUS
<1>4. QED BY <1>1, <1>2, <1>3, SerialStep

\* The actions of a turn change that turn.
LEMMA ProceedFrame ==
  ASSUME ConvInv, NEW t \in Turns, Proceed(t) \/ Arrive(t) \/ Fail(t) \/ LockTimeout(t)
  PROVE  \A u \in Turns \ {t} : /\ pc'[u] = pc[u] /\ base'[u] = base[u] /\ mem'[u] = mem[u]
                                /\ written'[u] = written[u] /\ work'[u] = work[u]
<1> SUFFICES ASSUME NEW u \in Turns \ {t}
             PROVE  /\ pc'[u] = pc[u] /\ base'[u] = base[u] /\ mem'[u] = mem[u]
                    /\ written'[u] = written[u] /\ work'[u] = work[u]
  OBVIOUS
<1>1. /\ pc \in [Turns -> Places] /\ base \in [Turns -> Rows] /\ mem \in [Turns -> Rows]
      /\ written \in [Turns -> SUBSET Columns] /\ work \in [Turns -> Works]
  BY DEF ConvInv, TypeOK, Places
<1>2. CASE Dispatch(t)
  BY <1>1, <1>2 DEF Dispatch, ShareLocation, EndOfTurn, ConfirmYes, ConfirmOther, Begin, Onboard,
                    Join, CommitAndGoOn, InMode, GoIdle, Goto, session
<1>3. CASE Load(t) \/ Run(t) \/ \E half \in BOOLEAN : RunFails(t, half)
  BY <1>1, <1>3 DEF Load, Run, RunFails, EndOfTurn, Goto
<1>4. CASE HandlerCommits(t) \/ Command(t) \/ Undo(t) \/ Parse(t) \/ Answer(t) \/ Close(t)
  BY <1>1, <1>4 DEF HandlerCommits, CommitAndGoOn, Command, Undo, Parse, Answer, Close,
                    Flush, EndOfTurn, Goto, session
<1>5. CASE \E d \in Drafts, auto \in BOOLEAN : Draft(t, d, auto)
  BY <1>1, <1>5 DEF Draft, Goto
<1>6. CASE Arrive(t) \/ Fail(t) \/ LockTimeout(t)
  BY <1>1, <1>6 DEF Arrive, Fail, LockTimeout, EndOfTurn, Goto, session
<1>7. QED BY <1>2, <1>3, <1>4, <1>5, <1>6 DEF Proceed

LEMMA NoSerialTurn ==
  ASSUME NEW t, NEW p \in {"idle", "arrived"}, NEW b, NEW m, NEW w, NEW k
  PROVE  SerialTurn(t, p, b, m, w, k)'
BY DEF SerialTurn, Exact, Left, Asking, Undoing, Begun

\* A turn ends or arrives, and nothing was committed.
LEMMA IdleSerial ==
  ASSUME SerialInv, ConvInv', NEW t \in Turns,
         \A u \in Turns \ {t} : /\ pc'[u] = pc[u] /\ base'[u] = base[u] /\ mem'[u] = mem[u]
                                /\ written'[u] = written[u] /\ work'[u] = work[u],
         lock' = lock \/ (lock \in {t, Nobody} /\ lock' \in {t, Nobody}),
         UNCHANGED <<row, offered, runs, asked, latest>>,
         pc'[t] \in {"idle", "arrived"}
  PROVE  SerialInv'
<1>1. PICK p \in {"idle", "arrived"}, b \in Rows, m \in Rows, w \in SUBSET Columns, k \in Works :
        p = pc'[t] /\ b = base'[t] /\ m = mem'[t] /\ w = written'[t] /\ k = work'[t]
  BY AfterView
<1>2. SerialTurn(t, p, b, m, w, k)'
  BY NoSerialTurn
<1>3. QED BY <1>1, <1>2, QuietSerial

LEMMA AwaySerial ==
  ASSUME SerialInv, ConvInv', NEW t \in Turns, Arrive(t) \/ Fail(t) \/ LockTimeout(t)
  PROVE  SerialInv'
<1>1. ConvInv /\ pc \in [Turns -> Places]
  BY DEF SerialInv, ConvInv, TypeOK, Places
<1>2. /\ lock' = lock \/ (lock \in {t, Nobody} /\ lock' \in {t, Nobody})
      /\ UNCHANGED <<row, offered, runs, asked, latest>>
      /\ pc'[t] \in {"idle", "arrived"}
  BY <1>1 DEF Arrive, Fail, LockTimeout, EndOfTurn, Goto, Unlock, history
<1>3. \A u \in Turns \ {t} : /\ pc'[u] = pc[u] /\ base'[u] = base[u] /\ mem'[u] = mem[u]
                             /\ written'[u] = written[u] /\ work'[u] = work[u]
  BY <1>1, ProceedFrame
<1>4. QED BY <1>2, <1>3, IdleSerial

LEMMA QuietProceed ==
  ASSUME SerialInv, ConvInv', NEW t \in Turns, Proceed(t),
         lock' = lock \/ (lock \in {t, Nobody} /\ lock' \in {t, Nobody}),
         UNCHANGED <<row, offered, runs, asked, latest>>,
         NEW p, NEW b, NEW m, NEW w, NEW k,
         p = pc'[t], b = base'[t], m = mem'[t], w = written'[t], k = work'[t],
         SerialTurn(t, p, b, m, w, k)'
  PROVE  SerialInv'
<1>1. \A u \in Turns \ {t} : /\ pc'[u] = pc[u] /\ base'[u] = base[u] /\ mem'[u] = mem[u]
                             /\ written'[u] = written[u] /\ work'[u] = work[u]
  BY ProceedFrame DEF SerialInv
<1>2. QED BY <1>1, QuietSerial

\* The fields of a row are its columns.
LEMMA RowFields ==
  ASSUME NEW r \in Rows
  PROVE  r["state"] = r.state /\ r["draft"] = r.draft /\ r["last"] = r.last
BY DEF Rows

LEMMA LoadSerial ==
  ASSUME Serial, SerialInv, ConvInv', NEW t \in Turns, Load(t)
  PROVE  SerialInv'
<1>1. PICK p \in Places, b \in Rows, m \in Rows, w \in SUBSET Columns, k \in Works :
        p = pc'[t] /\ b = base'[t] /\ m = mem'[t] /\ w = written'[t] /\ k = work'[t]
  BY AfterView
<1>2. PICK n \in Rows : n = mem[t] /\ n = EmptyRow /\ written[t] = {} /\ work[t] = NoWork
  BY SerialView DEF Load, Turn, Fresh
<1>3. /\ pc \in [Turns -> Places] /\ base \in [Turns -> Rows] /\ mem \in [Turns -> Rows]
      /\ row \in Rows /\ row.last \in {latest, NoDraft}
  BY DEF SerialInv, SerialRow, ConvInv, TypeOK, Places
<1>4. /\ lock \in {t, Nobody} /\ lock' = t /\ b = row /\ w = {} /\ k = NoWork
      /\ UNCHANGED <<row, offered, runs, asked, latest>> /\ Proceed(t)
  BY <1>1, <1>2, <1>3 DEF Load, MayWrite, Proceed, history
<1>5. \/ p = "dispatch" /\ m.last = row.last
      \/ p = "closing" /\ m.state = "ONBOARDING" /\ m.last = NoDraft
  <2>1. t \notin Webs
    BY DEF Serial
  <2>2. CASE mem' = [mem EXCEPT ![t].state = "ONBOARDING"] /\ Goto(t, "closing")
    <3>1. p = "closing" /\ m = [n EXCEPT !.state = "ONBOARDING"]
      BY <1>1, <1>2, <1>3, <2>2 DEF Goto
    <3>2. QED BY <1>2, <3>1, StateTyped, EmptyTyped
  <2>3. CASE /\ mem' = [mem EXCEPT ![t] = IF row.state = "NEW" /\ t \in Chats
                                            THEN [row EXCEPT !.state = "IDLE"] ELSE row]
             /\ Goto(t, "dispatch")
    <3>1. p = "dispatch" /\ (m = row \/ m = [row EXCEPT !.state = "IDLE"])
      BY <1>1, <1>3, <2>3 DEF Goto
    <3>2. QED BY ZenonT(40), <1>3, <3>1, StateTyped
  <2>4. QED BY <2>1, <2>2, <2>3 DEF Load
<1>6. SerialTurn(t, p, b, m, w, k)'
  <2>1. Exact(t, p, b, w)' /\ Left(t, p, b, m, w, k)'
    BY <1>4 DEF Exact, Left
  <2>2. Asking(t, p, b, m, w, k)'
    BY <1>4, <1>5, EmptyTyped DEF Asking, Confirmable
  <2>3. Undoing(t, p, m, k)'
    BY <1>3, <1>4, <1>5, EmptyTyped, DraftsDiffer, ConversationAssumption DEF Undoing
  <2>4. QED BY <2>1, <2>2, <2>3 DEF SerialTurn
<1>7. QED BY <1>1, <1>4, <1>6, QuietProceed

\* A handler of a message that has read the row.
LEMMA DispatchedSerial ==
  ASSUME SerialInv, ConvInv', NEW t \in Turns, Proceed(t), pc[t] = "dispatch",
         UNCHANGED <<row, lock, offered, runs, asked, latest>>,
         base'[t] = base[t], written'[t] = written[t],
         mem'[t].last = mem[t].last, work'[t].ran = NoDraft, work'[t].undid = NoDraft,
         work'[t].dropped # NoDraft => row.state \in Confirmable /\ row.draft = work'[t].dropped,
         pc'[t] \in {"idle_handler", "drafting", "closing"} /\ mem'[t].state \in Confirmable
           => mem'[t].draft \in Drafts /\ mem'[t].draft # row.draft
  PROVE  SerialInv'
<1>1. PICK p \in Places, b \in Rows, m \in Rows, w \in SUBSET Columns, k \in Works :
        p = pc'[t] /\ b = base'[t] /\ m = mem'[t] /\ w = written'[t] /\ k = work'[t]
  BY AfterView
<1>2. b = row /\ lock = t /\ w = {} /\ mem[t].last = row.last
  BY <1>1, DispatchView, SerialView DEF SerialInv, Turn, Loaded
<1>3. row.last \in {latest, NoDraft}
  BY DEF SerialInv, SerialRow
<1>4. SerialTurn(t, p, b, m, w, k)'
  <2>2. Exact(t, p, b, w)' /\ Left(t, p, b, m, w, k)'
    BY <1>2 DEF Exact, Left
  <2>3. Asking(t, p, b, m, w, k)'
    BY <1>1, <1>2 DEF Asking, NewDraft, Writes
  <2>4. Undoing(t, p, m, k)'
    BY <1>1, <1>2, <1>3, ConversationAssumption DEF Undoing
  <2>5. QED BY <2>2, <2>3, <2>4 DEF SerialTurn
<1>5. QED BY <1>1, <1>2, <1>4, QuietProceed

LEMMA DispatchSerial ==
  ASSUME SerialInv, ConvInv', NEW t \in Turns,
         \/ ConfirmYes(t) \/ Onboard(t) \/ InMode(t) \/ GoIdle(t)
         \/ \E text \in {"no", "new"}, byDefault \in BOOLEAN : ConfirmOther(t, text, byDefault)
  PROVE  SerialInv'
<1>0. ConvInv /\ pc[t] = "dispatch"
  BY DEF SerialInv, ConfirmYes, ConfirmOther, Onboard, InMode, GoIdle
<1>1. PICK b \in Rows, m \in Rows :
        /\ b = row /\ m = mem[t]
        /\ m.draft = b.draft /\ m.last = b.last
        /\ m.state = IF b.state = "NEW" THEN "IDLE" ELSE b.state
        /\ m.state \in Confirmable => m.draft \in Drafts
        /\ b.draft \in Drafts => b.draft \in offered
        /\ work = [work EXCEPT ![t] = NoWork]
  BY <1>0, DispatchView
<1>2. /\ mem \in [Turns -> Rows] /\ work \in [Turns -> Works] /\ pc \in [Turns -> Places]
      /\ offered \subseteq proposed
  BY <1>0 DEF ConvInv, TypeOK, Places
<1>3. work[t] = NoWork
  BY <1>1, <1>2
<1>4. /\ Proceed(t)
      /\ UNCHANGED <<row, lock, offered, runs, asked, latest>>
      /\ base'[t] = base[t] /\ written'[t] = written[t]
  BY DEF Proceed, Dispatch, ConfirmYes, ConfirmOther, Onboard, InMode, GoIdle, session, history
<1>5. ASSUME NEW place \in {"run", "replace"}, m.state \in Confirmable, Begin(t, place)
      PROVE  /\ mem'[t] = m /\ pc'[t] = place
             /\ work'[t].ran = NoDraft /\ work'[t].undid = NoDraft /\ work'[t].dropped = NoDraft
  <2>1. m.draft # NoDraft /\ m.draft \in Drafts
    BY <1>1, <1>5, DraftsDiffer
  <2>2. /\ mem'[t] = m /\ pc'[t] = place /\ work'[t] = [NoWork EXCEPT !.todo = m.draft]
    BY <1>1, <1>2, <1>3, <1>5, <2>1 DEF Begin, Goto
  <2>3. QED BY <2>1, <2>2 DEF NoWork, Works
<1>6. CASE ConfirmYes(t)
  <2>1. m.state \in Confirmable /\ Begin(t, "run")
    BY <1>1, <1>6 DEF ConfirmYes
  <2>2. QED BY <1>0, <1>1, <1>4, <1>5, <2>1, DispatchedSerial
<1>7. ASSUME NEW text \in {"no", "new"}, NEW byDefault \in BOOLEAN,
             ConfirmOther(t, text, byDefault)
      PROVE  SerialInv'
  <2>1. m.state \in Confirmable /\ b.state = m.state
    BY <1>1, <1>7 DEF ConfirmOther, Confirmable
  <2>2. CASE Begin(t, "replace")
    BY <1>0, <1>1, <1>4, <1>5, <2>1, <2>2, DispatchedSerial
  <2>3. CASE /\ mem' = [mem EXCEPT ![t] = Discard(@)]
             /\ work' = [work EXCEPT ![t].dropped = mem[t].draft]
    <3>1. mem'[t] = Discard(m) /\ work'[t] = [NoWork EXCEPT !.dropped = m.draft]
      BY <1>1, <1>2, <1>3, <2>3
    <3>2. mem'[t].last = m.last /\ mem'[t].state = "IDLE"
      BY ZenonT(40), <3>1, Operations
    <3>3. work'[t].ran = NoDraft /\ work'[t].undid = NoDraft /\ work'[t].dropped = m.draft
      BY <1>1, <2>1, <3>1 DEF NoWork, Works
    <3>4. mem'[t].state \notin Confirmable
      BY <3>2 DEF Confirmable
    <3>5. QED BY <1>0, <1>1, <1>4, <2>1, <3>2, <3>3, <3>4, DispatchedSerial
  <2>4. QED BY <1>7, <2>2, <2>3 DEF ConfirmOther
<1>8. CASE work' = work
  <2>1. work'[t].ran = NoDraft /\ work'[t].undid = NoDraft /\ work'[t].dropped = NoDraft
    BY <1>3, <1>8, EmptyTyped
  <2>2. CASE Onboard(t)
    <3>1. PICK n \in {m, [m EXCEPT !.state = "IDLE"], [m EXCEPT !.draft = JoinStep], Reset(m)} :
            mem'[t] = n
      BY <1>1, <1>2, <2>2 DEF Onboard
    <3>2. m.state = "ONBOARDING"
      BY <1>1, <2>2 DEF Onboard
    <3>3. n.last = m.last /\ n.state \in {"ONBOARDING", "IDLE"}
      <4>1. CASE n = m
        BY <3>2, <4>1
      <4>2. CASE n = [m EXCEPT !.state = "IDLE"]
        BY <4>2, StateTyped
      <4>3. CASE n = [m EXCEPT !.draft = JoinStep]
        BY <3>2, <4>3, Operations
      <4>4. CASE n = Reset(m)
        BY <4>4, Operations
      <4>5. QED BY <3>1, <4>1, <4>2, <4>3, <4>4
    <3>4. n.state \notin Confirmable
      BY <3>3 DEF Confirmable
    <3>5. QED BY <1>0, <1>1, <1>4, <2>1, <3>1, <3>3, <3>4, DispatchedSerial
  <2>3. CASE InMode(t)
    <3>1. ASSUME NEW s \in {"MODE", "IDLE"}, mem' = [mem EXCEPT ![t].state = s]
          PROVE  SerialInv'
      <4>1. mem'[t] = [m EXCEPT !.state = s]
        BY <1>1, <1>2, <3>1
      <4>2. mem'[t].last = m.last /\ mem'[t].state = s
        BY <4>1, StateTyped
      <4>3. mem'[t].state \notin Confirmable
        BY <4>2 DEF Confirmable
      <4>4. QED BY <1>0, <1>1, <1>4, <2>1, <4>2, <4>3, DispatchedSerial
    <3>2. ASSUME NEW d \in Drafts \ proposed, mem' = [mem EXCEPT ![t] = Propose(@, d, FALSE)]
          PROVE  SerialInv'
      <4>1. mem'[t] = Propose(m, d, FALSE)
        BY <1>1, <1>2, <3>2
      <4>2. mem'[t].last = m.last /\ mem'[t].draft = d
        <5>1. PICK n \in Rows : n = Propose(m, d, FALSE) /\ n.last = m.last /\ n.draft = d
          BY ProposeTyped
        <5>2. QED BY <4>1, <5>1
      <4>3. d # b.draft
        BY <1>1, <1>2
      <4>4. QED BY <1>0, <1>1, <1>4, <2>1, <4>2, <4>3, DispatchedSerial
    <3>3. QED BY <2>3, <3>1, <3>2 DEF InMode
  <2>4. CASE GoIdle(t)
    <3>1. mem'[t] = m /\ m.state = "IDLE"
      BY <1>1, <2>4 DEF GoIdle, session
    <3>2. mem'[t].state \notin Confirmable /\ mem'[t].last = m.last
      BY <3>1 DEF Confirmable
    <3>3. QED BY <1>0, <1>1, <1>4, <2>1, <3>2, DispatchedSerial
  <2>5. CASE ConfirmYes(t) \/ \E text \in {"no", "new"}, byDefault \in BOOLEAN :
                                ConfirmOther(t, text, byDefault)
    BY <1>6, <1>7, <2>5
  <2>6. QED BY <2>2, <2>3, <2>4, <2>5
<1>9. Onboard(t) \/ InMode(t) \/ GoIdle(t) => work' = work
  BY DEF Onboard, InMode, GoIdle, session
<1>10. QED BY <1>6, <1>7, <1>8, <1>9

LEMMA HandledSerial ==
  ASSUME SerialInv, ConvInv', NEW t \in Turns, Proceed(t), pc[t] = "idle_handler",
         UNCHANGED <<row, offered, runs, asked, latest>>,
         lock' = lock \/ (lock \in {t, Nobody} /\ lock' = t),
         \/ base'[t] = base[t] /\ written'[t] = written[t]
         \/ base'[t] = mem[t] /\ written'[t] = written[t] \cup Dirty(t),
         mem'[t].draft = mem[t].draft, mem'[t].state \notin Confirmable,
         mem'[t].last \in {mem[t].last, NoDraft}, work'[t].undid \in {mem[t].last, NoDraft},
         work'[t].ran = work[t].ran, work'[t].dropped = work[t].dropped
  PROVE  SerialInv'
<1>1. PICK p \in Places, b \in Rows, m \in Rows, w \in SUBSET Columns, k \in Works :
        p = pc'[t] /\ b = base'[t] /\ m = mem'[t] /\ w = written'[t] /\ k = work'[t]
  BY AfterView
<1>2. PICK a \in Rows, n \in Rows, v \in SUBSET Columns, j \in Works :
        /\ a = base[t] /\ n = mem[t] /\ v = written[t] /\ j = work[t]
        /\ SerialTurn(t, "idle_handler", a, n, v, j)
  BY SerialView
<1>3. v = {}
  BY <1>2, IdleView DEF SerialInv
<1>4. lock = t /\ lock' = t
  BY <1>2 DEF SerialTurn, Left, Begun
<1>5. /\ a["state"] = row["state"] /\ a["draft"] = row["draft"] /\ a["last"] = row["last"]
      /\ j.ran # NoDraft => Writes(a, n, {}, "draft")
      /\ j.dropped # NoDraft => row.state \in Confirmable /\ row.draft = j.dropped
      /\ j.ran = NoDraft \/ j.dropped = NoDraft
      /\ n.last \in {IF j.ran \in Tracked THEN j.ran ELSE latest, NoDraft}
  BY <1>2, <1>3, <1>4 DEF SerialTurn, Exact, Asking, Undoing, Begun
<1>6. /\ \A c \in {"state", "draft", "last"} \ w : b[c] = row[c]
      /\ Writes(a, n, {}, "draft") => Writes(b, m, w, "draft")
  <2>1. CASE b = a /\ w = v
    BY <1>1, <1>2, <1>3, <1>5, <2>1 DEF Writes
  <2>2. CASE b = n /\ w = v \cup Dirty(t)
    <3>1. \A c \in Columns : c \in w <=> n[c] # a[c]
      BY <1>2, <1>3, <2>2 DEF Dirty
    <3>2. {"state", "draft", "last"} \subseteq Columns
      BY DEF Columns
    <3>3. \A c \in {"state", "draft", "last"} \ w : b[c] = row[c]
      BY <1>5, <2>2, <3>1, <3>2
    <3>4. n["draft"] = n.draft /\ a["draft"] = a.draft
      BY RowFields
    <3>5. QED BY <3>1, <3>2, <3>3, <3>4 DEF Writes
  <2>3. QED BY <1>1, <1>2, <2>1, <2>2
<1>7. SerialTurn(t, p, b, m, w, k)'
  <2>1. Exact(t, p, b, w)' /\ Left(t, p, b, m, w, k)'
    BY <1>4, <1>6 DEF Exact, Left
  <2>2. Asking(t, p, b, m, w, k)'
    BY <1>1, <1>2, <1>5, <1>6 DEF Asking, Writes
  <2>3. Undoing(t, p, m, k)'
    BY <1>1, <1>2, <1>5 DEF Undoing
  <2>4. QED BY <2>1, <2>2, <2>3 DEF SerialTurn
<1>8. QED BY <1>1, <1>4, <1>7, QuietProceed

LEMMA IdleHandlerSerial ==
  ASSUME SerialInv, ConvInv', NEW t \in Turns, Command(t) \/ Undo(t) \/ Parse(t)
  PROVE  SerialInv'
<1>1. PICK m \in Rows, k \in Works :
        /\ m = mem[t] /\ k = work[t] /\ m.state = "IDLE" /\ k.undid = NoDraft
        /\ pc[t] = "idle_handler"
  BY IdleView DEF SerialInv, Command, Undo, Parse
<1>2. /\ mem \in [Turns -> Rows] /\ work \in [Turns -> Works] /\ pc \in [Turns -> Places]
      /\ base \in [Turns -> Rows] /\ written \in [Turns -> SUBSET Columns]
  BY DEF SerialInv, ConvInv, TypeOK, Places
<1>3. /\ Proceed(t) /\ UNCHANGED <<row, offered, runs, asked, latest>>
      /\ lock' = lock \/ (lock \in {t, Nobody} /\ lock' = t)
  BY DEF Proceed, Command, Undo, Parse, Flush, MayWrite, history
<1>4. \/ base'[t] = base[t] /\ written'[t] = written[t]
      \/ base'[t] = mem[t] /\ written'[t] = written[t] \cup Dirty(t)
  BY <1>2 DEF Command, Undo, Parse, Flush
<1>5. /\ mem'[t].draft = m.draft /\ mem'[t].state \notin Confirmable
      /\ mem'[t].last \in {m.last, NoDraft}
  <2>1. CASE Command(t)
    <3>1. PICK s \in {"IDLE", "MODE"} : mem'[t] = [m EXCEPT !.state = s]
      BY <1>1, <1>2, <2>1 DEF Command
    <3>2. s \in {"IDLE", "ONBOARDING", "MODE"}
      OBVIOUS
    <3>3. mem'[t].state = s /\ mem'[t].draft = m.draft /\ mem'[t].last = m.last
      BY <3>1, <3>2, StateTyped
    <3>4. QED BY <3>3 DEF Confirmable
  <2>2. CASE Undo(t)
    <3>1. mem'[t] = [m EXCEPT !.last = NoDraft]
      BY <1>1, <1>2, <2>2 DEF Undo
    <3>2. mem'[t].state = "IDLE" /\ mem'[t].draft = m.draft /\ mem'[t].last = NoDraft
      BY <1>1, <3>1, Operations
    <3>3. QED BY <3>2 DEF Confirmable
  <2>3. CASE Parse(t)
    BY <1>1, <2>3 DEF Parse, Confirmable
  <2>4. QED BY <2>1, <2>2, <2>3
<1>6. /\ work'[t].undid \in {m.last, NoDraft} /\ work'[t].ran = k.ran
      /\ work'[t].dropped = k.dropped
  <2>1. CASE Undo(t)
    <3>1. work'[t] = [k EXCEPT !.undid = m.last] /\ m.last \in Drafts \cup {NoDraft}
      BY <1>1, <1>2, <2>1 DEF Undo, Rows
    <3>2. QED BY <3>1 DEF Works
  <2>2. CASE work' = work
    BY <1>1, <2>2
  <2>3. QED BY <2>1, <2>2 DEF Command, Parse
<1>7. QED BY <1>1, <1>3, <1>4, <1>5, <1>6, HandledSerial

LEMMA DraftingSerial ==
  ASSUME SerialInv, ConvInv', NEW t \in Turns,
         Answer(t) \/ \E d \in Drafts, auto \in BOOLEAN : Draft(t, d, auto)
  PROVE  SerialInv'
<1>1. PICK p \in Places, b \in Rows, m \in Rows, w \in SUBSET Columns, k \in Works :
        p = pc'[t] /\ b = base'[t] /\ m = mem'[t] /\ w = written'[t] /\ k = work'[t]
  BY AfterView
<1>2. PICK n \in Rows : /\ n = mem[t] /\ pc[t] = "drafting"
                        /\ Turn(t, "drafting", base[t], n, written[t], work[t])
                        /\ SerialTurn(t, "drafting", base[t], n, written[t], work[t])
  BY SerialView DEF Answer, Draft
<1>3. /\ mem \in [Turns -> Rows] /\ pc \in [Turns -> Places] /\ offered \subseteq proposed
  BY DEF SerialInv, ConvInv, TypeOK, Places
<1>4. /\ Proceed(t) /\ UNCHANGED <<row, lock, offered, runs, asked, latest>>
      /\ b = base[t] /\ w = written[t] /\ k = work[t] /\ p = "closing"
  BY <1>1, <1>3 DEF Proceed, Answer, Draft, Goto, session, history
<1>5. /\ Turn(t, "drafting", b, n, w, k) /\ SerialTurn(t, "drafting", b, n, w, k)
  BY <1>2, <1>4
<1>6. lock = t
  BY <1>5 DEF SerialTurn, Left, Begun
<1>7. /\ m.last = n.last
      /\ \/ m = n
         \/ NewDraft(b, m, w)
  <2>1. CASE Answer(t)
    BY <1>1, <1>2, <2>1 DEF Answer, session
  <2>2. ASSUME NEW d \in Drafts, NEW auto \in BOOLEAN, Draft(t, d, auto)
        PROVE  m.last = n.last /\ NewDraft(b, m, w)
    <3>1. m = Propose(n, d, auto) /\ d \notin proposed
      BY <1>1, <1>2, <1>3, <2>2 DEF Draft
    <3>2. m.draft = d /\ m.last = n.last
      BY <3>1, ProposeTyped
    <3>3. b.draft # d
      BY <1>3, <1>5, <3>1 DEF Turn, Writing
    <3>4. QED BY <3>2, <3>3 DEF NewDraft, Writes
  <2>3. QED BY <2>1, <2>2
<1>8. SerialTurn(t, p, b, m, w, k)'
  <2>1. Exact(t, p, b, w)' /\ Left(t, p, b, m, w, k)' /\ Undoing(t, p, m, k)'
    BY <1>4, <1>5, <1>6, <1>7 DEF SerialTurn, Exact, Left, Undoing, Begun
  <2>2. Asking(t, p, b, m, w, k)'
    BY <1>4, <1>5, <1>6, <1>7 DEF SerialTurn, Asking, NewDraft, Writes
  <2>3. QED BY <2>1, <2>2 DEF SerialTurn
<1>9. QED BY <1>1, <1>4, <1>8, QuietProceed

\* The tool leaves the commit to the turn, or raises before it has done anything.
LEMMA ToolSerial ==
  ASSUME Serial, SerialInv, ConvInv', NEW t \in Turns,
         Run(t) \/ \E half \in BOOLEAN : RunFails(t, half)
  PROVE  SerialInv'
<1>0. PICK b \in Rows, m \in Rows, k \in Works, d \in Drafts :
        /\ b = base[t] /\ m = mem[t] /\ k = work[t] /\ written[t] = {}
        /\ t \in Chats \cup Webs
        /\ m.last = b.last /\ b.draft \in Drafts
        /\ d = k.todo /\ k.ran = NoDraft /\ k.undid = NoDraft /\ k.dropped = NoDraft
        /\ t \in Chats => lock = t /\ b = row
  BY RunView DEF SerialInv, Run, RunFails
<1>1. t \notin Webs /\ lock = t /\ b = row /\ ~CommitsMidway(d)
  BY <1>0 DEF Serial, CommitsMidway
<1>2. /\ mem \in [Turns -> Rows] /\ pc \in [Turns -> Places] /\ work \in [Turns -> Works]
      /\ row.last \in {latest, NoDraft}
  BY DEF SerialInv, SerialRow, ConvInv, TypeOK, Places
<1>3. PICK p \in Places, n \in Rows, z \in Works : p = pc'[t] /\ n = mem'[t] /\ z = work'[t]
  BY AfterView
<1>4. /\ Proceed(t) /\ UNCHANGED <<row, offered, runs, asked, latest>> /\ lock' = t
      /\ base'[t] = b /\ written'[t] = {}
  <2>1. CASE Run(t)
    BY <1>0, <1>1, <2>1 DEF Proceed, Run
  <2>2. ASSUME NEW half \in BOOLEAN, RunFails(t, half)
        PROVE  /\ UNCHANGED <<row, offered, runs, asked, latest>> /\ lock' = t
               /\ base'[t] = b /\ written'[t] = {}
    BY <1>0, <1>1, <2>2 DEF RunFails
  <2>3. QED BY <2>1, <2>2 DEF Proceed
<1>5. /\ n.state = "IDLE" /\ n.draft = NoDraft /\ z.undid = NoDraft /\ z.dropped = NoDraft
      /\ n.last \in {IF z.ran \in Tracked THEN z.ran ELSE m.last, NoDraft}
  <2>1. CASE Run(t)
    <3>1. n = Reset(Remember(m, d)) /\ z = [k EXCEPT !.todo = NoDraft, !.ran = d]
      BY <1>0, <1>1, <1>2, <1>3, <2>1 DEF Run, Executed
    <3>2. PICK r \in Rows : r = Remember(m, d) /\ r.last = IF d \in Tracked THEN d ELSE m.last
      BY RememberTyped
    <3>3. n.state = "IDLE" /\ n.draft = NoDraft /\ n.last = r.last
      BY <3>1, <3>2, Operations
    <3>4. z.undid = NoDraft /\ z.dropped = NoDraft /\ z.ran = d
      BY <1>0, <3>1 DEF Works
    <3>5. QED BY <3>2, <3>3, <3>4
  <2>2. ASSUME NEW half \in BOOLEAN, RunFails(t, half)
        PROVE  n = Reset(m) /\ z = [k EXCEPT !.todo = NoDraft]
    BY <1>0, <1>1, <1>2, <1>3, <2>2 DEF RunFails
  <2>3. CASE n = Reset(m) /\ z = [k EXCEPT !.todo = NoDraft]
    <3>1. n.state = "IDLE" /\ n.draft = NoDraft /\ n.last = m.last
      BY <2>3, Operations
    <3>2. z.undid = NoDraft /\ z.dropped = NoDraft /\ z.ran = NoDraft
      BY <1>0, <2>3 DEF Works
    <3>3. QED BY <3>1, <3>2, DraftsDiffer, ConversationAssumption
  <2>4. QED BY <2>1, <2>2, <2>3
<1>6. SerialTurn(t, p, b, n, {}, z)'
  <2>1. Exact(t, p, b, {})' /\ Left(t, p, b, n, {}, z)'
    BY <1>1, <1>4 DEF Exact, Left
  <2>2. Asking(t, p, b, n, {}, z)'
    BY <1>0, <1>5, DraftsDiffer DEF Asking, Confirmable, Writes
  <2>3. Undoing(t, p, n, z)'
    BY <1>0, <1>1, <1>2, <1>4, <1>5 DEF Undoing
  <2>4. QED BY <2>1, <2>2, <2>3 DEF SerialTurn
<1>7. QED BY <1>1, <1>3, <1>4, <1>6, QuietProceed

-----------------------------------------------------------------------------
(* A commit resolves the pending draft and perhaps proposes another *)

\* What the commit of a turn with row m in memory and work k leaves, when it
\* holds the lock (it wrote nothing, or the row is m's) and when it has let it go.
Outcome(m, k) ==
  /\ row \in Rows /\ row' \in Rows
  /\ offered' = offered \cup ({m.draft} \cap Drafts)
  /\ cancelled' = cancelled \cup ({k.dropped} \ {NoDraft})
  /\ undone' = undone \cup ({k.undid} \ {NoDraft})
  /\ runs' = [d \in Drafts |-> runs[d] + IF d = k.ran THEN 1 ELSE 0]
  /\ latest' = IF k.ran \in Tracked THEN k.ran ELSE latest
  /\ \/ /\ row'.state = m.state /\ row'.draft = m.draft /\ row'.last = m.last
        /\ m.last \in {latest', NoDraft} /\ k.undid \in {latest', NoDraft}
        /\ \/ row'.state = row.state /\ row'.draft = row.draft /\ asked' = asked
              /\ k.ran = NoDraft /\ k.dropped = NoDraft
           \/ /\ asked' = IF m.state \in Confirmable THEN m.draft ELSE NoDraft
              /\ m.draft \in Drafts => m.draft \notin offered \/ m.draft = row.draft
              /\ m.state \in Confirmable => m.draft \in proposed \ offered
              /\ k.ran # NoDraft => /\ row.state \in Confirmable /\ row.draft = k.ran
                                    /\ m.draft # k.ran
              /\ k.dropped # NoDraft => row.state \in Confirmable /\ row.draft = k.dropped
              /\ k.ran = NoDraft \/ k.dropped = NoDraft
     \/ /\ k = NoWork /\ row'.last = row.last
        /\ \/ row'.state = row.state /\ row'.draft = row.draft /\ asked' = asked
           \/ /\ row'.state = "IDLE" /\ asked' = NoDraft
              /\ row'.draft \in {row.draft, NoDraft}

LEMMA SerialCommit ==
  ASSUME Serial, SerialInv, NEW t \in Turns, Commit(t),
         pc[t] \in {"dispatch", "idle_handler", "closing"}
  PROVE  \E m \in Rows, k \in Works : Outcome(m, k)
<1>0. PICK p \in Places, b \in Rows, m \in Rows, w \in SUBSET Columns, k \in Works :
        /\ p = pc[t] /\ b = base[t] /\ m = mem[t] /\ w = written[t] /\ k = work[t]
        /\ Turn(t, p, b, m, w, k) /\ SerialTurn(t, p, b, m, w, k)
  BY SerialView
<1>1. ConvInv /\ row \in Rows /\ (row.draft \in Drafts => row.draft \in offered)
  BY DEF SerialInv, ConvInv, RowSound, TypeOK
<1>2. /\ row' \in Rows
      /\ row'.state = IF Writes(b, m, w, "state") THEN m.state ELSE row.state
      /\ row'.draft = IF Writes(b, m, w, "draft") THEN m.draft ELSE row.draft
      /\ row'.last = IF Writes(b, m, w, "last") THEN m.last ELSE row.last
      /\ asked' = IF Writes(b, m, w, "state") \/ Writes(b, m, w, "draft")
                    THEN IF m.state \in Confirmable THEN m.draft ELSE NoDraft
                    ELSE asked
      /\ offered' = offered \cup ({m.draft} \cap Drafts)
      /\ cancelled' = cancelled \cup ({k.dropped} \ {NoDraft})
      /\ undone' = undone \cup ({k.undid} \ {NoDraft})
      /\ runs' = [d \in Drafts |-> runs[d] + IF d = k.ran THEN 1 ELSE 0]
      /\ latest' = IF k.ran \in Tracked THEN k.ran ELSE latest
  BY <1>0, <1>1, CommitTyped
<1>3. /\ p \in {"dispatch", "idle_handler", "closing"} /\ k.todo = NoDraft
      /\ Writing(t, b, m, w) /\ Working(t, p, b, m, w, k) /\ Loaded(t, p, b, m, w, k)
  BY <1>0 DEF Turn, Working
<1>4. t \in Chats
  BY <1>0, <1>3 DEF Serial, SerialInv, ConvInv, RowSound, Turns
<1>5. CASE lock = t
  <2>1. /\ \A c \in {"state", "draft", "last"} \ w : b[c] = row[c]
        /\ m.last \in {latest', NoDraft} /\ k.undid \in {latest', NoDraft}
    BY <1>0, <1>2, <1>3, <1>5 DEF SerialTurn, Exact, Undoing, Begun
  <2>2. /\ ~Writes(b, m, w, "state") => m.state = row.state
        /\ ~Writes(b, m, w, "draft") => m.draft = row.draft
        /\ ~Writes(b, m, w, "last") => m.last = row.last
    BY <1>1, <2>1, RowFields DEF Writes
  <2>3. row'.state = m.state /\ row'.draft = m.draft /\ row'.last = m.last
    BY <1>2, <2>2
  <2>4. /\ k.ran # NoDraft => Writes(b, m, w, "draft")
        /\ k.dropped # NoDraft => Writes(b, m, w, "draft")
        /\ k.dropped # NoDraft => row.state \in Confirmable /\ row.draft = k.dropped
        /\ k.ran = NoDraft \/ k.dropped = NoDraft
    <3>1. CASE p = "dispatch"
      <4>1. k = NoWork
        BY <1>3, <3>1 DEF Loaded
      <4>2. QED BY <4>1, EmptyTyped
    <3>2. CASE p \in {"idle_handler", "closing"}
      BY <1>0, <1>3, <1>5, <3>2 DEF SerialTurn, Asking, Working
    <3>3. QED BY <1>3, <3>1, <3>2
  <2>5. CASE ~Writes(b, m, w, "state") /\ ~Writes(b, m, w, "draft")
    <3>1. row'.state = row.state /\ row'.draft = row.draft /\ asked' = asked
      BY <1>2, <2>5
    <3>2. k.ran = NoDraft /\ k.dropped = NoDraft
      BY <2>4, <2>5
    <3>3. QED BY <1>1, <1>2, <2>1, <2>3, <3>1, <3>2 DEF Outcome
  <2>6. CASE Writes(b, m, w, "state") \/ Writes(b, m, w, "draft")
    <3>1. asked' = IF m.state \in Confirmable THEN m.draft ELSE NoDraft
      BY <1>2, <2>6
    <3>2. m.draft \in Drafts => m.draft \notin offered \/ m.draft = row.draft
      BY <1>3, <2>2 DEF Writing, NewDraft
    <3>3. m.state \in Confirmable => m.draft \in proposed \ offered
      <4>1. CASE p = "dispatch"
        <5>1. /\ w = {} /\ b = row /\ m.draft = row.draft
              /\ m.state = IF row.state = "NEW" THEN "IDLE" ELSE row.state
          BY <1>3, <4>1 DEF Loaded
        <5>2. m.state \in Confirmable => ~Writes(b, m, w, "state") /\ ~Writes(b, m, w, "draft")
          BY <5>1 DEF Writes, Confirmable
        <5>3. QED BY <2>6, <5>2
      <4>2. CASE p \in {"idle_handler", "closing"}
        <5>1. m.state \in Confirmable => NewDraft(b, m, w)
          BY <1>0, <1>5, <4>2 DEF SerialTurn, Asking
        <5>2. QED BY <1>3, <5>1 DEF Writing
      <4>3. QED BY <1>3, <4>1, <4>2
    <3>4. k.ran # NoDraft => /\ row.state \in Confirmable /\ row.draft = k.ran
                             /\ m.draft # k.ran
      <4> SUFFICES ASSUME k.ran # NoDraft
                   PROVE  /\ row.state \in Confirmable /\ row.draft = k.ran
                          /\ m.draft # k.ran
        OBVIOUS
      <4>1. row.state \in Confirmable /\ row.draft = k.ran /\ k.ran \in Drafts
        BY <1>3, <1>4 DEF Working, Works
      <4>2. m.draft \in Drafts => m.draft \notin offered
        BY <1>3, <2>4 DEF Writing, NewDraft
      <4>3. QED BY <1>1, <4>1, <4>2
    <3>5. QED BY <1>1, <1>2, <2>1, <2>3, <2>4, <3>1, <3>2, <3>3, <3>4 DEF Outcome
  <2>7. QED BY <2>5, <2>6
<1>6. CASE lock # t
  <2>1. /\ w = {} /\ k = NoWork /\ m.last = b.last
        /\ \/ m.state = b.state /\ m.draft = b.draft
           \/ m.state = "IDLE" /\ b.state # "IDLE" /\ m.draft = NoDraft
    BY <1>0, <1>3, <1>6 DEF SerialTurn, Left, Begun
  <2>2. row'.last = row.last
    BY <1>2, <2>1 DEF Writes
  <2>3. \/ row'.state = row.state /\ row'.draft = row.draft /\ asked' = asked
        \/ /\ row'.state = "IDLE" /\ asked' = NoDraft
           /\ row'.draft \in {row.draft, NoDraft}
    BY <1>2, <2>1 DEF Writes, Confirmable
  <2>4. QED BY <1>1, <1>2, <2>1, <2>2, <2>3 DEF Outcome
<1>7. QED BY <1>5, <1>6

LEMMA SerialCommitRow ==
  ASSUME Serial, SerialInv, ConvInv', NEW t \in Turns, Commit(t),
         pc[t] \in {"dispatch", "idle_handler", "closing"}
  PROVE  SerialRow'
<1>1. PICK m \in Rows, k \in Works : Outcome(m, k)
  BY SerialCommit
<1>2. /\ AskedIsPending /\ \A d \in Drafts : runs[d] # 0 => d \in offered
      /\ row.draft \in Drafts => runs[row.draft] = 0
      /\ row.last \in {latest, NoDraft}
      /\ row.draft \in Drafts => row.draft \in offered
      /\ runs \in [Drafts -> Nat] /\ Tracked \subseteq Drafts
  BY ConversationAssumption DEF SerialInv, SerialRow, ConvInv, RowSound, TypeOK
<1>3. k.ran \in Drafts => k.ran \in offered
  BY <1>1, <1>2, DraftsDiffer, EmptyTyped DEF Outcome
<1>4. \A d \in Drafts : runs'[d] = runs[d] \/ (d = k.ran /\ runs'[d] # 0)
  BY <1>1, <1>2 DEF Outcome
<1>5. AskedIsPending'
  BY <1>1, <1>2 DEF Outcome, AskedIsPending, Confirmable
<1>6. \A d \in Drafts : runs'[d] # 0 => d \in offered'
  BY <1>1, <1>2, <1>3, <1>4 DEF Outcome
<1>7. row'.draft \in Drafts => runs'[row'.draft] = 0
  <2> SUFFICES ASSUME row'.draft \in Drafts PROVE runs'[row'.draft] = 0
    OBVIOUS
  <2>1. row'.draft \notin offered \/ row'.draft = row.draft
    BY <1>1, DraftsDiffer DEF Outcome
  <2>2. runs[row'.draft] = 0
    BY <1>2, <2>1
  <2>3. row'.draft # k.ran
    BY <1>1, DraftsDiffer, EmptyTyped DEF Outcome
  <2>4. QED BY <1>4, <2>2, <2>3
<1>8. row'.last \in {latest', NoDraft}
  BY <1>1, <1>2, DraftsDiffer, EmptyTyped DEF Outcome
<1>9. QED BY <1>5, <1>6, <1>7, <1>8 DEF SerialRow

LEMMA CommitSerial ==
  ASSUME Serial, SerialInv, ConvInv', NEW t \in Turns, Proceed(t), Commit(t),
         pc[t] \in {"dispatch", "idle_handler", "closing"},
         \/ pc'[t] = "idle"
         \/ /\ pc'[t] = "closing" /\ written'[t] = {} /\ work'[t] = NoWork
            /\ mem'[t].last = base'[t].last
            /\ \/ mem'[t] = base'[t]
               \/ base'[t].state # "IDLE" /\ mem'[t].state = "IDLE" /\ mem'[t].draft = NoDraft
  PROVE  SerialInv'
<1>1. PICK p \in Places, b \in Rows, m \in Rows, w \in SUBSET Columns, k \in Works :
        p = pc'[t] /\ b = base'[t] /\ m = mem'[t] /\ w = written'[t] /\ k = work'[t]
  BY AfterView
<1>2. /\ lock \in {t, Nobody} /\ lock' = Nobody /\ t # Nobody
  BY DraftsDiffer DEF Commit, MayWrite
<1>3. SerialTurn(t, p, b, m, w, k)'
  <2>1. CASE p = "idle"
    BY <2>1, NoSerialTurn
  <2>2. CASE p = "closing"
    <3>1. Exact(t, p, b, w)' /\ Asking(t, p, b, m, w, k)' /\ Undoing(t, p, m, k)'
      BY <1>2 DEF Exact, Asking, Undoing
    <3>2. Left(t, p, b, m, w, k)'
      BY <1>1, <2>2 DEF Left
    <3>3. QED BY <3>1, <3>2 DEF SerialTurn
  <2>3. QED BY <1>1, <2>1, <2>2
<1>4. SerialRow'
  BY SerialCommitRow
<1>5. /\ \A u \in Turns \ {t} : lock' = u <=> lock = u
      /\ \A u \in Turns \ {t} : lock = u => row' = row /\ latest' = latest
  BY <1>2, DraftsDiffer
<1>6. \A u \in Turns \ {t} : /\ pc'[u] = pc[u] /\ base'[u] = base[u] /\ mem'[u] = mem[u]
                             /\ written'[u] = written[u] /\ work'[u] = work[u]
  BY ProceedFrame DEF SerialInv
<1>7. QED BY <1>1, <1>3, <1>4, <1>5, <1>6, SerialStep

\* The actions that commit.
CommitsNow(t) == Close(t) \/ ShareLocation(t) \/ Join(t) \/ HandlerCommits(t)

LEMMA CommittingSerial ==
  ASSUME Serial, SerialInv, ConvInv', NEW t \in Turns, CommitsNow(t)
  PROVE  SerialInv'
<1>1. /\ mem \in [Turns -> Rows] /\ pc \in [Turns -> Places] /\ work \in [Turns -> Works]
      /\ base \in [Turns -> Rows] /\ written \in [Turns -> SUBSET Columns]
  BY DEF SerialInv, ConvInv, TypeOK, Places
<1>2. /\ Proceed(t) /\ Commit(t) /\ pc[t] \in {"dispatch", "idle_handler", "closing"}
  BY DEF CommitsNow, Close, ShareLocation, Join, HandlerCommits, CommitAndGoOn, Proceed, Dispatch
<1>3. CASE Close(t) \/ ShareLocation(t)
  <2>1. pc'[t] = "idle"
    BY <1>1, <1>3 DEF Close, ShareLocation, EndOfTurn
  <2>2. QED BY <1>2, <2>1, CommitSerial
<1>4. CASE CommitAndGoOn(t)
  <2>1. /\ pc'[t] = "closing" /\ written'[t] = {} /\ work'[t] = NoWork /\ base'[t] = mem[t]
    BY <1>1, <1>4 DEF CommitAndGoOn, Goto
  <2>2. PICK m \in Rows : m = mem[t]
    BY <1>1
  <2>3. CASE UNCHANGED mem
    BY <1>2, <2>1, <2>3, CommitSerial
  <2>4. CASE Join(t)
    <3>1. mem'[t] = Reset(m) /\ m.state = "ONBOARDING"
      BY <1>1, <2>2, <2>4 DEF Join
    <3>2. mem'[t].state = "IDLE" /\ mem'[t].draft = NoDraft /\ mem'[t].last = m.last
      <4>1. /\ Reset(m).state = "IDLE" /\ Reset(m).draft = NoDraft
            /\ Reset(m).last = m.last
        BY Operations
      <4>2. QED BY <3>1, <4>1
    <3>3. QED BY <1>2, <2>1, <2>2, <3>1, <3>2, CommitSerial
  <2>5. Join(t) \/ HandlerCommits(t)
    BY <1>1, <1>4, <2>1 DEF CommitsNow, Close, ShareLocation, EndOfTurn
  <2>6. QED BY <2>3, <2>4, <2>5 DEF HandlerCommits
<1>5. QED BY <1>3, <1>4 DEF CommitsNow, Join, HandlerCommits

\* The steps between two commits leave the row and what was committed.
LEMMA BetweenCommits ==
  ASSUME Serial, ConvInv, Next, \A t \in Turns : ~CommitsNow(t)
  PROVE  UNCHANGED <<row, offered, runs, undone, cancelled, asked, latest>>
<1>1. ASSUME NEW t \in Turns, Proceed(t), ~CommitsNow(t)
      PROVE  UNCHANGED <<row, offered, runs, undone, cancelled, asked, latest>>
  <2>1. CASE Dispatch(t)
    BY <1>1, <2>1 DEF CommitsNow, Dispatch, ConfirmYes, ConfirmOther, Onboard, InMode, GoIdle,
                      history
  <2>2. CASE Run(t) \/ \E half \in BOOLEAN : RunFails(t, half)
    BY <2>2 DEF Serial, Run, RunFails, CommitsMidway
  <2>3. CASE Load(t) \/ Command(t) \/ Undo(t) \/ Parse(t) \/ Answer(t)
             \/ \E d \in Drafts, auto \in BOOLEAN : Draft(t, d, auto)
    BY <2>3 DEF Load, Command, Undo, Parse, Answer, Draft, history
  <2>4. QED BY <1>1, <2>1, <2>2, <2>3 DEF Proceed, CommitsNow
<1>2. ASSUME NEW t \in Turns, Arrive(t) \/ Fail(t) \/ LockTimeout(t)
      PROVE  UNCHANGED <<row, offered, runs, undone, cancelled, asked, latest>>
  BY <1>2 DEF Arrive, Fail, LockTimeout, history
<1>3. (TimerFires \/ Crash) => UNCHANGED <<row, offered, runs, undone, cancelled, asked, latest>>
  BY DEF TimerFires, Crash, history
<1>4. \A w \in Webs, d \in Drafts : ~WebConfirm(w, d)
  BY DEF Serial
<1>5. QED BY <1>1, <1>2, <1>3, <1>4 DEF Next

LEMMA ProceedSerial ==
  ASSUME Serial, SerialInv, ConvInv', NEW t \in Turns, Proceed(t)
  PROVE  SerialInv'
<1>1. CASE Dispatch(t)
  BY <1>1, DispatchSerial, CommittingSerial DEF Dispatch, CommitsNow
<1>2. CASE ~Dispatch(t)
  BY <1>2, LoadSerial, ToolSerial, CommittingSerial, IdleHandlerSerial, DraftingSerial
     DEF Proceed, CommitsNow
<1>3. QED BY <1>1, <1>2

LEMMA SerialNext == Serial /\ SerialInv /\ [Next]_vars => SerialInv'
<1> SUFFICES ASSUME Serial, SerialInv, [Next]_vars PROVE SerialInv'
  OBVIOUS
<1>1. ConvInv'
  BY ConvStep DEF SerialInv
<1>2. CASE UNCHANGED vars
  <2>1. SerialRow' /\ SerialTurns'
    BY <1>2 DEF vars, SerialInv, SerialRow, AskedIsPending, SerialTurns, SerialTurn, Exact, Left,
                Asking, Undoing, NewDraft, Writes
  <2>2. QED BY <1>1, <2>1 DEF SerialInv
<1>3. ASSUME NEW t \in Turns, Arrive(t) \/ Proceed(t) \/ Fail(t) \/ LockTimeout(t)
      PROVE  SerialInv'
  BY <1>1, <1>3, ProceedSerial, AwaySerial
<1>4. CASE Crash
  <2>1. SerialRow'
    BY <1>4 DEF Crash, history, SerialInv, SerialRow, AskedIsPending
  <2>2. SerialTurns'
    BY <1>4 DEF Crash, SerialTurns, SerialTurn, Exact, Left, Asking, Undoing, Begun
  <2>3. QED BY <1>1, <2>1, <2>2 DEF SerialInv
<1>5. CASE TimerFires
  <2>1. ~Comparable("aware", row.ts)
    BY DEF Comparable, SerialInv, ConvInv, TypeOK
  <2>2. UNCHANGED <<row, lock, pc, base, mem, written, work, offered, runs, asked, latest>>
    BY <1>5, <2>1 DEF TimerFires, history
  <2>3. SerialRow' /\ SerialTurns'
    BY <2>2 DEF SerialInv, SerialRow, AskedIsPending, SerialTurns, SerialTurn, Exact, Left,
                Asking, Undoing, NewDraft, Writes
  <2>4. QED BY <1>1, <2>3 DEF SerialInv
<1>6. \A w \in Webs, d \in Drafts : ~WebConfirm(w, d)
  BY DEF Serial
<1>7. QED BY <1>2, <1>3, <1>4, <1>5, <1>6 DEF Next

LEMMA SerialInit == Init => SerialInv
<1> SUFFICES ASSUME Init PROVE SerialInv
  OBVIOUS
<1>1. SerialRow
  BY EmptyTyped, DraftsDiffer DEF Init, SerialRow, AskedIsPending, Confirmable
<1>2. SerialTurns
  BY DEF Init, SerialTurns, SerialTurn, Exact, Left, Asking, Undoing, Begun
<1>3. QED BY <1>1, <1>2, ConvInit DEF SerialInv

-----------------------------------------------------------------------------
(* What serial turns promise *)

\* With webhook turns only, and tools that leave the commit to the turn, the
\* invariant holds of every number of turns, drafts, messages and faults.
THEOREM ConversationSerialInvariant ==
  ASSUME Serial PROVE Spec => []SerialInv
BY SerialInit, SerialNext, ConversationInvariant, PTL DEF Spec

\* The row awaits a confirmation exactly when the last turn that changed it
\* asked for one, and then of the draft it asked about (handle_message keeps the
\* write lock from the row's read to the commit of the reply).
THEOREM ConversationAskedIsPending ==
  ASSUME Serial PROVE Spec => []AskedIsPending
<1>1. SerialInv => AskedIsPending
  BY DEF SerialInv, SerialRow
<1>2. QED BY <1>1, ConversationSerialInvariant, PTL

LEMMA CommitsOf ==
  ASSUME NEW t \in Turns, CommitsNow(t)
  PROVE  Commit(t) /\ pc[t] \in {"dispatch", "idle_handler", "closing"}
BY DEF CommitsNow, Close, ShareLocation, Join, HandlerCommits, CommitAndGoOn

\* "undo" reverts the action that was executed last, not an older one
\* (last_action_metadata follows the executions in order).
THEOREM ConversationUndoRevertsLatest ==
  ASSUME Serial PROVE Spec => UndoRevertsLatest
<1>1. SerialInv /\ [Next]_vars => [\A d \in undone' \ undone : d = latest']_vars
  <2> SUFFICES ASSUME SerialInv, Next, NEW d \in undone' \ undone PROVE d = latest'
    OBVIOUS
  <2>1. CASE \A t \in Turns : ~CommitsNow(t)
    BY <2>1, BetweenCommits DEF SerialInv
  <2>2. ASSUME NEW t \in Turns, CommitsNow(t) PROVE d = latest'
    <3>1. PICK m \in Rows, k \in Works : Outcome(m, k)
      BY <2>2, CommitsOf, SerialCommit
    <3>2. QED BY <3>1, EmptyTyped DEF Outcome
  <2>3. QED BY <2>1, <2>2
<1>2. QED BY <1>1, ConversationSerialInvariant, PTL DEF Spec, UndoRevertsLatest

\* A commit is one step of the lifecycle of drafts, or none.
LEMMA CommitRefines ==
  ASSUME Serial, SerialInv, ConvInv', NEW t \in Turns, CommitsNow(t)
  PROVE  [Lifecycle!Next]_(Lifecycle!vars)
<1> DEFINE P == IF row.state \in Confirmable THEN row.draft ELSE NoDraft
<1>0. PICK m \in Rows, k \in Works : Outcome(m, k)
  BY CommitsOf, SerialCommit
<1>1. /\ cancelled' = cancelled \cup ({k.dropped} \ {NoDraft})
      /\ runs' = [d \in Drafts |-> runs[d] + IF d = k.ran THEN 1 ELSE 0]
      /\ \/ /\ row'.state = m.state /\ row'.draft = m.draft
            /\ \/ row'.state = row.state /\ row'.draft = row.draft
                  /\ k.ran = NoDraft /\ k.dropped = NoDraft
               \/ /\ m.state \in Confirmable => m.draft \in proposed \ offered
                  /\ k.ran # NoDraft => row.state \in Confirmable /\ row.draft = k.ran
                  /\ k.dropped # NoDraft => row.state \in Confirmable /\ row.draft = k.dropped
                  /\ k.ran = NoDraft \/ k.dropped = NoDraft
         \/ /\ k = NoWork
            /\ \/ row'.state = row.state /\ row'.draft = row.draft
               \/ row'.state = "IDLE"
  BY <1>0 DEF Outcome
<1>2. /\ \A d \in Drafts : runs[d] # 0 => d \in offered
      /\ ConfirmableHasDraft /\ cancelled \subseteq offered
      /\ row.draft \in Drafts => row.draft \in offered
      /\ runs \in [Drafts -> Nat] /\ proposed \subseteq Drafts
  BY DEF SerialInv, SerialRow, ConvInv, RowSound, TypeOK
<1>3. P = NoDraft \/ (P \in Drafts /\ P \in offered /\ P = row.draft)
  BY <1>2 DEF ConfirmableHasDraft
<1>4. k.ran # NoDraft => P = k.ran /\ k.dropped = NoDraft
  BY <1>1, EmptyTyped
<1>5. k.dropped # NoDraft => P = k.dropped /\ k.ran = NoDraft
  BY <1>1, EmptyTyped
<1>6. \/ P' = P /\ k.ran = NoDraft /\ k.dropped = NoDraft
      \/ P' = NoDraft
      \/ P' \in Drafts /\ P' \notin offered
  <2>1. CASE row'.state = row.state /\ row'.draft = row.draft
             /\ k.ran = NoDraft /\ k.dropped = NoDraft
    BY <2>1
  <2>2. CASE row'.state = "IDLE"
    BY <2>2 DEF Confirmable
  <2>3. CASE /\ row'.state = m.state /\ row'.draft = m.draft
             /\ m.state \in Confirmable => m.draft \in proposed \ offered
    BY <1>2, <2>3
  <2>4. QED BY <1>1, <2>1, <2>2, <2>3, EmptyTyped
<1>7. P' \in Drafts /\ P' \notin offered => runs[P'] = 0 /\ P' \notin cancelled /\ P' # P
  BY <1>2, <1>3, DraftsDiffer
<1>8. ~(P' = P /\ k.ran = NoDraft /\ k.dropped = NoDraft) => Lifecycle!NextPending
  BY <1>6, <1>7 DEF Lifecycle!NextPending, Lifecycle!Unused
<1>9. CASE k.ran # NoDraft
  <2>1. P \in Drafts /\ P = k.ran /\ cancelled' = cancelled
    BY <1>1, <1>3, <1>4, <1>9
  <2>2. PICK e \in Drafts : e = P /\ e = k.ran
    BY <2>1
  <2>3. runs' = [runs EXCEPT ![e] = @ + 1]
    <3>1. runs' \in [Drafts -> Nat] /\ runs \in [Drafts -> Nat]
      BY <1>1, <1>2
    <3>2. \A d \in Drafts : runs'[d] = IF d = e THEN runs[d] + 1 ELSE runs[d]
      BY <1>1, <1>2, <2>2
    <3>3. QED BY <3>1, <3>2
  <2>4. Lifecycle!Execute
    BY <1>8, <1>9, <2>1, <2>2, <2>3 DEF Lifecycle!Execute
  <2>5. QED BY <2>4 DEF Lifecycle!Next
<1>10. CASE k.dropped # NoDraft
  <2>1. P \in Drafts /\ P = k.dropped /\ cancelled' = cancelled \cup {P}
    BY <1>1, <1>3, <1>5, <1>10
  <2>2. runs' = runs
    BY <1>1, <1>2, <1>5, <1>10, DraftsDiffer
  <2>3. Lifecycle!Drop
    BY <1>8, <1>10, <2>1, <2>2 DEF Lifecycle!Drop
  <2>4. QED BY <2>3 DEF Lifecycle!Next
<1>11. CASE k.ran = NoDraft /\ k.dropped = NoDraft
  <2>1. UNCHANGED <<runs, cancelled>>
    BY <1>1, <1>2, <1>11, DraftsDiffer
  <2>2. CASE P' = P
    BY <2>1, <2>2 DEF Lifecycle!vars
  <2>3. CASE P' # P /\ P \in Drafts
    BY <1>8, <2>1, <2>3 DEF Lifecycle!GiveUp, Lifecycle!Next
  <2>4. CASE P' # P /\ P = NoDraft
    <3>1. P' \in Lifecycle!Unused
      BY <1>6, <1>7, <2>4 DEF Lifecycle!Unused
    <3>2. QED BY <2>1, <2>4, <3>1 DEF Lifecycle!Ask, Lifecycle!Next
  <2>5. QED BY <1>3, <2>2, <2>3, <2>4
<1>12. QED BY <1>9, <1>10, <1>11

\* Turns take effect one after the other: each resolves the pending draft and
\* perhaps proposes another, in one step, as DraftLifecycle promises.
THEOREM ConversationLifecycle ==
  ASSUME Serial PROVE Spec => LifecycleSpec
<1>1. Init => Lifecycle!Init
  BY EmptyTyped DEF Init, Lifecycle!Init, Confirmable
<1>2. SerialInv /\ [Next]_vars => [Lifecycle!Next]_(Lifecycle!vars)
  <2> SUFFICES ASSUME SerialInv, [Next]_vars PROVE [Lifecycle!Next]_(Lifecycle!vars)
    OBVIOUS
  <2>1. CASE UNCHANGED vars
    BY <2>1 DEF vars, Lifecycle!vars
  <2>2. CASE Next /\ \A t \in Turns : ~CommitsNow(t)
    <3>1. UNCHANGED <<row, runs, cancelled>>
      BY <2>2, BetweenCommits DEF SerialInv
    <3>2. QED BY <3>1 DEF Lifecycle!vars
  <2>3. ASSUME NEW t \in Turns, CommitsNow(t) PROVE [Lifecycle!Next]_(Lifecycle!vars)
    BY <2>3, ConvStep, CommitRefines DEF SerialInv
  <2>4. QED BY <2>1, <2>2, <2>3
<1>3. QED BY <1>1, <1>2, ConversationSerialInvariant, PTL DEF Spec, LifecycleSpec, Lifecycle!Spec

-----------------------------------------------------------------------------
(* Webhook turns and tools that commit midway *)

\* A draft whose tool leaves the commit to the turn: executed or cancelled at
\* most once, and not yet while the row holds it.
OnceSound ==
  \A d \in Drafts \ Committing :
    /\ runs[d] <= (IF d \in cancelled THEN 0 ELSE 1)
    /\ row.draft = d => runs[d] = 0
    /\ runs[d] # 0 => d \in offered

\* Between commits the row and what was cancelled and shown stay, and only a tool that
\* commits midway executes its draft.
LEMMA MidwayOnly ==
  ASSUME ConvInv, Next, \A t \in Turns : ~CommitsNow(t)
  PROVE  /\ UNCHANGED <<row, offered, cancelled>>
         /\ \A d \in Drafts \ Committing : runs'[d] = runs[d]
<1>0. runs \in [Drafts -> Nat]
  BY DEF ConvInv, TypeOK
<1>1. ASSUME NEW t \in Turns, Proceed(t), ~CommitsNow(t)
      PROVE  /\ UNCHANGED <<row, offered, cancelled>>
             /\ \A d \in Drafts \ Committing : runs'[d] = runs[d]
  <2>1. CASE Dispatch(t)
    BY <1>1, <2>1 DEF CommitsNow, Dispatch, ConfirmYes, ConfirmOther, Onboard, InMode, GoIdle,
                      history
  <2>2. CASE Run(t) \/ \E half \in BOOLEAN : RunFails(t, half)
    <3>1. UNCHANGED <<row, offered, cancelled>>
      BY <2>2 DEF Run, RunFails
    <3>2. \/ runs' = runs
          \/ work[t].todo \in Committing /\ runs' = [runs EXCEPT ![work[t].todo] = @ + 1]
      BY <2>2 DEF Run, RunFails, CommitsMidway
    <3>3. QED BY <1>0, <3>1, <3>2
  <2>3. CASE Load(t) \/ Command(t) \/ Undo(t) \/ Parse(t) \/ Answer(t)
             \/ \E d \in Drafts, auto \in BOOLEAN : Draft(t, d, auto)
    BY <2>3 DEF Load, Command, Undo, Parse, Answer, Draft, history
  <2>4. QED BY <1>1, <2>1, <2>2, <2>3 DEF Proceed, CommitsNow
<1>2. ASSUME NEW t \in Turns, Arrive(t) \/ Fail(t) \/ LockTimeout(t)
      PROVE  UNCHANGED <<row, offered, cancelled, runs>>
  BY <1>2 DEF Arrive, Fail, LockTimeout, history
<1>3. (TimerFires \/ Crash) => UNCHANGED <<row, offered, cancelled, runs>>
  BY DEF TimerFires, Crash, history
<1>4. \A w \in Webs, d \in Drafts : WebConfirm(w, d) => UNCHANGED <<row, offered, cancelled, runs>>
  BY DEF WebConfirm, history
<1>5. QED BY <1>1, <1>2, <1>3, <1>4 DEF Next

\* A webhook turn commits: what it ran or dropped is the draft of the row, which
\* it replaces; a draft it adds has never been shown.
LEMMA CommitOnce ==
  ASSUME ConvInv, OnceSound, NEW t \in Chats, CommitsNow(t)
  PROVE  OnceSound'
<1>1. t \in Turns /\ Commit(t)
  BY CommitsOf DEF Turns
<1>2. PICK b \in Rows, m \in Rows, w \in SUBSET Columns, k \in Works :
        /\ b = base[t] /\ m = mem[t] /\ w = written[t] /\ k = work[t]
        /\ Turn(t, pc[t], b, m, w, k)
        /\ row.draft \in Drafts => row.draft \in offered
  BY <1>1, View
<1>3. /\ row'.draft = IF Writes(b, m, w, "draft") THEN m.draft ELSE row.draft
      /\ offered' = offered \cup ({m.draft} \cap Drafts)
      /\ cancelled' = cancelled \cup ({k.dropped} \ {NoDraft})
      /\ runs' = [d \in Drafts |-> runs[d] + IF d = k.ran THEN 1 ELSE 0]
  BY <1>1, <1>2, CommitTyped
<1>4. k.ran # NoDraft =>
        row.draft = k.ran /\ Writes(b, m, w, "draft") /\ m.draft # k.ran
  BY <1>2 DEF Turn, Working
<1>5. k.dropped # NoDraft =>
        /\ row.draft = k.dropped /\ k.ran = NoDraft
        /\ Writes(b, m, w, "draft") /\ m.draft # k.dropped
  BY <1>2 DEF Turn, Working
<1>6. Writes(b, m, w, "draft") /\ m.draft \in Drafts => m.draft \notin offered
  BY <1>2 DEF Turn, Writing, NewDraft
<1>7. row.draft \notin cancelled /\ runs \in [Drafts -> Nat]
  BY DEF ConvInv, RowSound, TypeOK
<1>8. ASSUME NEW d \in Drafts \ Committing
      PROVE  /\ runs'[d] <= (IF d \in cancelled' THEN 0 ELSE 1)
             /\ row'.draft = d => runs'[d] = 0
             /\ runs'[d] # 0 => d \in offered'
  <2>1. /\ runs[d] \in Nat /\ runs[d] <= (IF d \in cancelled THEN 0 ELSE 1)
        /\ row.draft = d => runs[d] = 0
        /\ runs[d] # 0 => d \in offered
    BY <1>7, <1>8 DEF OnceSound
  <2>2. d # NoDraft /\ runs'[d] = runs[d] + IF d = k.ran THEN 1 ELSE 0
    BY <1>3, <1>8, DraftsDiffer
  <2>3. CASE d = k.ran
    BY <1>2, <1>3, <1>4, <1>5, <1>7, <2>1, <2>2, <2>3
  <2>4. CASE d = k.dropped
    BY <1>3, <1>5, <2>1, <2>2, <2>4
  <2>5. CASE d # k.ran /\ d # k.dropped
    BY <1>3, <1>6, <2>1, <2>2, <2>5
  <2>6. QED BY <2>3, <2>4, <2>5
<1>9. QED BY <1>8 DEF OnceSound

\* Whatever else commits midway, webhook turns execute or cancel a draft at most
\* once if its own tool leaves the commit to the turn (execute_draft resets the row in
\* the commit that makes the effect visible).
THEOREM ConversationResolvedOnce ==
  ASSUME Webs = {} PROVE Spec => []ResolvedOnce
<1>1. Init => OnceSound
  BY EmptyTyped, DraftsDiffer DEF Init, OnceSound
<1>2. ConvInv /\ OnceSound /\ [Next]_vars => OnceSound'
  <2> SUFFICES ASSUME ConvInv, OnceSound, [Next]_vars PROVE OnceSound'
    OBVIOUS
  <2>1. CASE UNCHANGED vars
    BY <2>1 DEF vars, OnceSound
  <2>2. CASE Next /\ \A t \in Turns : ~CommitsNow(t)
    BY <2>2, MidwayOnly DEF OnceSound
  <2>3. ASSUME NEW t \in Turns, CommitsNow(t) PROVE OnceSound'
    <3>1. pc[t] # "idle" /\ pc[Timer] = "idle"
      BY <2>3, CommitsOf DEF ConvInv, RowSound
    <3>2. t \in Chats
      BY <3>1 DEF Turns
    <3>3. QED BY <2>3, <3>2, CommitOnce
  <2>4. QED BY <2>1, <2>2, <2>3
<1>3. OnceSound => ResolvedOnce
  BY DEF OnceSound, ResolvedOnce
<1>4. QED BY <1>1, <1>2, <1>3, ConversationInvariant, PTL DEF Spec

=============================================================================
