--------------------------- MODULE CampaignProofs ---------------------------
(* Proofs about Campaign.  A recipient is handed to the provider at most    *)
(* once, whatever dies or is executed again, because the mark SENDING is    *)
(* committed before the first message and is never taken back; the ways     *)
(* round the mark are the ones the history raced names.  And a campaign     *)
(* that is COMPLETED adds up, because only a task whose session stayed open *)
(* can complete it, and such a task holds the row as it is.                 *)
EXTENDS Campaign, FiniteSetTheorems, TLAPS

-----------------------------------------------------------------------------
(* The inductive invariant *)

Active(t) == task[t].at # "idle"

\* Campaign c may still be taken up.
Untouched(c) == campaign[c] = NoRow \/ Executable(campaign[c].status)

Unsent(c) == \A k \in Contacts : handed[c][k] = 0

\* What a task knows of its campaign, by its step: before the mark nothing is
\* sent, after it nobody else may take the campaign up, and whom the task has
\* still to handle was not sent to.
Sound(x) ==
    /\ x.at = "tested" => /\ x.owns /\ Executable(x.copy.status)
                          /\ Executable(campaign[x.of].status)
    /\ x.at \in {"marked", "sending", "answered"} => ~Executable(campaign[x.of].status)
    /\ x.at = "marked" => Unsent(x.of)
    /\ x.at \in {"sending", "answered"} => \A k \in x.list : handed[x.of][k] = 0

TasksHaveRows == \A t \in Tasks : Active(t) => campaign[task[t].of] # NoRow

TasksSound == \A t \in Tasks : (Active(t) /\ task[t].of \notin raced) => Sound(task[t])

OneTask == \A t, u \in Tasks :
    (Active(t) /\ Active(u) /\ task[t].of = task[u].of /\ task[t].of \notin raced) => t = u

UntouchedUnsent == \A c \in Campaigns \ raced : Untouched(c) => Unsent(c)

CampaignInv == /\ CampaignTypeOK /\ TasksHaveRows /\ TasksSound /\ OneTask
               /\ UntouchedUnsent /\ BlastOnce

-----------------------------------------------------------------------------
(* Types *)

LEMMA NoTaskTyped == NoTask \in TaskRecord /\ NoTask.at = "idle"
<1>1. (CHOOSE c \in Campaigns : TRUE) \in Campaigns
  BY CampaignAssumption
<1>2. QED BY <1>1 DEF NoTask, TaskRecord, CampaignRow, CampaignStatus

LEMMA RowIsNot == \A r \in CampaignRow : r # NoRow
BY CampaignAssumption DEF CampaignRow

\* A commit of a task leaves a campaign row, and touches no other campaign.
LEMMA SavedRow ==
  ASSUME CampaignInv, NEW t \in Tasks, Active(t), NEW new \in CampaignRow,
         SaveCampaign(t, new)
  PROVE  /\ campaign' \in [Campaigns -> CampaignRow \cup {NoRow}]
         /\ \A c \in Campaigns : /\ campaign'[c] = NoRow <=> campaign[c] = NoRow
                                 /\ c # task[t].of => campaign'[c] = campaign[c]
         /\ ~task[t].owns => campaign' = campaign
         /\ task[t].owns => campaign'[task[t].of].status =
              IF new.status = task[t].copy.status THEN campaign[task[t].of].status ELSE new.status
<1>1. task[t] \in TaskRecord /\ campaign[task[t].of] \in CampaignRow /\ task[t].of \in Campaigns
  BY DEF CampaignInv, CampaignTypeOK, TasksHaveRows, TaskRecord
<1> DEFINE o == task[t].of
           copy == task[t].copy
           row == campaign[o]
           saved == [f \in DOMAIN new |-> IF new[f] = copy[f] THEN row[f] ELSE new[f]]
<1>2. CASE ~task[t].owns
  BY <1>1, <1>2 DEF SaveCampaign, CampaignInv, CampaignTypeOK
<1>3. CASE task[t].owns
  <2>1. campaign' = [campaign EXCEPT ![o] = saved]
    BY <1>3 DEF SaveCampaign
  <2>2. DOMAIN new = {"status", "total", "sent", "failed"} /\ row \in CampaignRow
        /\ copy \in CampaignRow
    BY <1>1 DEF CampaignRow, TaskRecord
  <2>3. saved \in CampaignRow
        /\ saved.status = IF new.status = copy.status THEN row.status ELSE new.status
    <3> HIDE DEF copy, row
    <3>1. QED BY <2>2 DEF CampaignRow
  <2> HIDE DEF saved
  <2>4. QED BY <1>1, <1>3, <2>1, <2>3, RowIsNot DEF CampaignInv, CampaignTypeOK
<1>4. QED BY <1>2, <1>3

-----------------------------------------------------------------------------
(* Steps *)

LEMMA CampaignInitial == CampaignInit => CampaignInv
<1> SUFFICES ASSUME CampaignInit PROVE CampaignInv
  OBVIOUS
<1>1. CampaignTypeOK
  <2>1. runs \in 0..MaxRuns
    BY CampaignAssumption DEF CampaignInit
  <2>2. task \in [Tasks -> TaskRecord]
    BY NoTaskTyped DEF CampaignInit
  <2>3. QED BY <2>1, <2>2 DEF CampaignInit, CampaignTypeOK
<1>2. \A t \in Tasks : ~Active(t)
  BY NoTaskTyped DEF CampaignInit, Active
<1>3. \A c \in Campaigns, k \in Contacts : handed[c][k] = 0
  BY DEF CampaignInit
<1>4. TasksHaveRows /\ TasksSound /\ OneTask
  BY <1>2 DEF TasksHaveRows, TasksSound, OneTask
<1>5. UntouchedUnsent /\ BlastOnce
  BY <1>3 DEF UntouchedUnsent, Unsent, BlastOnce
<1>6. QED BY <1>1, <1>4, <1>5 DEF CampaignInv

\* The step of a task that works on its campaign: what it leaves to be shown is
\* about that campaign alone.
LEMMA TaskStep ==
  ASSUME CampaignInv, NEW t \in Tasks, Active(t), NEW rec \in TaskRecord,
         task' = [task EXCEPT ![t] = rec], rec.of = task[t].of,
         campaign' \in [Campaigns -> CampaignRow \cup {NoRow}],
         recipient' \in [Campaigns -> [Contacts -> RecipientStatus \cup {NoRow}]],
         handed' \in [Campaigns -> [Contacts -> Nat]],
         raced \subseteq raced', raced' \subseteq Campaigns, UNCHANGED <<contact, runs>>,
         \A c \in Campaigns : /\ campaign'[c] = NoRow <=> campaign[c] = NoRow
                              /\ c # rec.of => campaign'[c] = campaign[c] /\ handed'[c] = handed[c],
         rec.of \notin raced' =>
            /\ rec.at # "idle" => Sound(rec)'
            /\ Untouched(rec.of)' => Unsent(rec.of)'
            /\ \A k \in Contacts : handed'[rec.of][k] <= 1
  PROVE  CampaignInv'
<1>1. /\ task' \in [Tasks -> TaskRecord] /\ task'[t] = rec
      /\ \A u \in Tasks : u # t => task'[u] = task[u]
  BY DEF CampaignInv, CampaignTypeOK
<1>2. CampaignTypeOK'
  BY <1>1 DEF CampaignInv, CampaignTypeOK
<1>3. \A u \in Tasks : task[u].of \in Campaigns /\ task'[u].of = task[u].of
  BY <1>1 DEF CampaignInv, CampaignTypeOK, TaskRecord
<1>4. \A u \in Tasks : Active(u)' => Active(u)
  BY <1>1 DEF Active
<1>5. TasksHaveRows'
  BY <1>3, <1>4 DEF CampaignInv, TasksHaveRows
<1>6. OneTask'
  BY <1>3, <1>4 DEF CampaignInv, OneTask
<1>7. TasksSound'
  <2> SUFFICES ASSUME NEW u \in Tasks, Active(u)', task'[u].of \notin raced'
               PROVE  Sound(task[u])'
    BY DEF TasksSound
  <2>1. CASE u = t
    BY <1>1, <2>1 DEF Active, Sound, Unsent
  <2>2. CASE u # t
    <3>1. task[u].of # rec.of /\ Sound(task[u]) /\ task'[u] = task[u]
      BY <1>1, <1>3, <1>4, <2>2 DEF CampaignInv, OneTask, TasksSound
    <3>2. campaign'[task[u].of] = campaign[task[u].of] /\ handed'[task[u].of] = handed[task[u].of]
      BY <1>3, <3>1
    <3>3. QED BY <3>1, <3>2 DEF Sound, Unsent
  <2>3. QED BY <2>1, <2>2
<1>8. UntouchedUnsent' /\ BlastOnce'
  <2> SUFFICES ASSUME NEW c \in Campaigns, c \notin raced'
               PROVE  /\ Untouched(c)' => Unsent(c)'
                      /\ \A k \in Contacts : handed'[c][k] <= 1
    BY DEF UntouchedUnsent, BlastOnce
  <2>1. CASE c = rec.of
    BY <2>1
  <2>2. CASE c # rec.of
    <3>1. campaign'[c] = campaign[c] /\ handed'[c] = handed[c] /\ c \notin raced
      BY <2>2
    <3>2. QED BY <3>1 DEF CampaignInv, UntouchedUnsent, Untouched, Unsent, BlastOnce
  <2>3. QED BY <2>1, <2>2
<1>9. QED BY <1>2, <1>5, <1>6, <1>7, <1>8 DEF CampaignInv

\* What holds of a task at work, and of its campaign.
LEMMA TaskAtWork ==
  ASSUME CampaignInv, NEW t \in Tasks, Active(t)
  PROVE  /\ task[t] \in TaskRecord /\ task[t].of \in Campaigns /\ task[t].copy \in CampaignRow
         /\ campaign[task[t].of] \in CampaignRow
         /\ task[t].of \notin raced =>
              /\ Sound(task[t])
              /\ Untouched(task[t].of) => Unsent(task[t].of)
              /\ \A k \in Contacts : handed[task[t].of][k] \in Nat /\ handed[task[t].of][k] <= 1
         /\ campaign \in [Campaigns -> CampaignRow \cup {NoRow}]
         /\ recipient \in [Campaigns -> [Contacts -> RecipientStatus \cup {NoRow}]]
         /\ handed \in [Campaigns -> [Contacts -> Nat]] /\ raced \subseteq Campaigns
BY DEF CampaignInv, CampaignTypeOK, TaskRecord, TasksHaveRows, TasksSound, UntouchedUnsent, BlastOnce

LEMMA CreateStep == ASSUME CampaignInv, NEW c \in Campaigns, CreateCampaign(c) PROVE CampaignInv'
<1> DEFINE row == [status |-> "DRAFT", total |-> 0, sent |-> 0, failed |-> 0]
<1>1. row \in CampaignRow /\ Executable(row.status)
  BY DEF CampaignRow, CampaignStatus, Executable
<1>2. campaign[c] = NoRow /\ campaign' = [campaign EXCEPT ![c] = row]
      /\ UNCHANGED <<recipient, contact, task, handed, raced, runs>>
  BY DEF CreateCampaign
<1> HIDE DEF row
<1>3. campaign' \in [Campaigns -> CampaignRow \cup {NoRow}] /\ campaign'[c] = row
      /\ \A d \in Campaigns : d # c => campaign'[d] = campaign[d]
  BY <1>1, <1>2 DEF CampaignInv, CampaignTypeOK
<1>4. CampaignTypeOK'
  BY <1>2, <1>3 DEF CampaignInv, CampaignTypeOK
<1>5. \A t \in Tasks : Active(t) => task[t].of \in Campaigns /\ task[t].of # c
  BY <1>2 DEF CampaignInv, CampaignTypeOK, TaskRecord, TasksHaveRows
<1>6. TasksHaveRows' /\ OneTask'
  BY <1>2, <1>3, <1>5 DEF CampaignInv, TasksHaveRows, OneTask, Active
<1>7. TasksSound'
  BY <1>2, <1>3, <1>5 DEF CampaignInv, TasksSound, Active, Sound, Unsent
<1>8. UntouchedUnsent' /\ BlastOnce'
  BY <1>2, <1>3 DEF CampaignInv, UntouchedUnsent, BlastOnce, Untouched, Unsent
<1>9. QED BY <1>4, <1>6, <1>7, <1>8 DEF CampaignInv

LEMMA PrepareStep == ASSUME CampaignInv, NEW c \in Campaigns, PrepareAudience(c) PROVE CampaignInv'
<1> DEFINE n == Cardinality(Addressed)
           row == [campaign[c] EXCEPT !.total = n]
<1>1. n \in Nat
  <2>1. Addressed \subseteq Contacts
    BY DEF Addressed
  <2>2. QED BY <2>1, CampaignAssumption, FS_Subset, FS_CardinalityType
<1>2. campaign[c] \in CampaignRow /\ campaign' = [campaign EXCEPT ![c] = row]
      /\ UNCHANGED <<contact, task, handed, runs>>
  BY DEF PrepareAudience, CampaignInv, CampaignTypeOK
<1> HIDE DEF n
<1>3. row \in CampaignRow /\ row.status = campaign[c].status
  BY <1>1, <1>2 DEF CampaignRow
<1> HIDE DEF row
<1>4. /\ campaign' \in [Campaigns -> CampaignRow \cup {NoRow}] /\ campaign'[c] = row
      /\ \A d \in Campaigns : d # c => campaign'[d] = campaign[d]
  BY <1>2, <1>3 DEF CampaignInv, CampaignTypeOK
<1>5. recipient' \in [Campaigns -> [Contacts -> RecipientStatus \cup {NoRow}]]
  <2>1. [k \in Contacts |-> IF k \in Addressed THEN "PENDING" ELSE NoRow]
          \in [Contacts -> RecipientStatus \cup {NoRow}]
    BY DEF RecipientStatus
  <2>2. QED BY <2>1 DEF PrepareAudience, CampaignInv, CampaignTypeOK
<1>6. raced' \in {raced, raced \cup {c}}
  BY DEF PrepareAudience
<1>7. CampaignTypeOK'
  BY <1>2, <1>4, <1>5, <1>6 DEF CampaignInv, CampaignTypeOK
<1>8. \A d \in Campaigns : /\ campaign'[d] = NoRow <=> campaign[d] = NoRow
                           /\ Untouched(d)' <=> Untouched(d)
                           /\ Executable(campaign'[d].status) <=> Executable(campaign[d].status)
  BY <1>2, <1>3, <1>4, RowIsNot DEF Untouched
<1>9. \A t \in Tasks : task[t].of \in Campaigns
  BY DEF CampaignInv, CampaignTypeOK, TaskRecord
<1>10. TasksHaveRows' /\ OneTask'
  BY <1>2, <1>6, <1>8, <1>9 DEF CampaignInv, TasksHaveRows, OneTask, Active
<1>11. TasksSound'
  BY <1>2, <1>6, <1>8, <1>9 DEF CampaignInv, TasksSound, Active, Sound, Unsent
<1>12. UntouchedUnsent' /\ BlastOnce'
  BY <1>2, <1>6, <1>8 DEF CampaignInv, UntouchedUnsent, BlastOnce, Unsent
<1>13. QED BY <1>7, <1>10, <1>11, <1>12 DEF CampaignInv

LEMMA ContactStep ==
  ASSUME CampaignInv, NEW k \in Contacts, NEW to \in {"unreachable", "gone"}, ContactChanges(k, to)
  PROVE  CampaignInv'
<1>1. UNCHANGED <<campaign, recipient, task, handed, raced, runs>>
      /\ contact' \in [Contacts -> {"reachable", "unreachable", "gone"}]
  BY DEF ContactChanges, CampaignInv, CampaignTypeOK
<1>2. CampaignTypeOK'
  BY <1>1 DEF CampaignInv, CampaignTypeOK
<1>3. TasksHaveRows' /\ OneTask' /\ TasksSound'
  BY <1>1 DEF CampaignInv, TasksHaveRows, OneTask, TasksSound, Active, Sound, Unsent
<1>4. UntouchedUnsent' /\ BlastOnce'
  BY <1>1 DEF CampaignInv, UntouchedUnsent, BlastOnce, Untouched, Unsent
<1>5. QED BY <1>2, <1>3, <1>4 DEF CampaignInv

LEMMA TestStep ==
  ASSUME CampaignInv, NEW t \in Tasks, NEW c \in Campaigns, ExecuteTest(t, c)
  PROVE  CampaignInv'
<1> DEFINE rec == [NoTask EXCEPT !.at = "tested", !.of = c, !.copy = campaign[c]]
<1>1. campaign[c] \in CampaignRow /\ Executable(campaign[c].status) /\ ~Active(t)
  BY DEF ExecuteTest, CampaignInv, CampaignTypeOK, Active
<1>2. rec \in TaskRecord /\ rec.at = "tested" /\ rec.of = c /\ rec.copy = campaign[c] /\ rec.owns
  <2> DEFINE a == [NoTask EXCEPT !.at = "tested"]
             b == [a EXCEPT !.of = c]
  <2>1. NoTask.owns
    BY DEF NoTask
  <2>2. a \in TaskRecord /\ a.at = "tested" /\ a.owns
    BY <2>1, NoTaskTyped DEF TaskRecord
  <2> HIDE DEF a
  <2>3. b \in TaskRecord /\ b.at = "tested" /\ b.owns /\ b.of = c
    BY <2>2 DEF TaskRecord
  <2>4. rec = [b EXCEPT !.copy = campaign[c]]
    BY DEF a
  <2> HIDE DEF b, rec
  <2>5. QED BY <1>1, <2>3, <2>4 DEF TaskRecord
<1>3. /\ task' = [task EXCEPT ![t] = rec] /\ runs' = runs + 1 /\ runs < MaxRuns
      /\ UNCHANGED <<campaign, recipient, contact, handed>>
  BY DEF ExecuteTest, Update
<1> HIDE DEF rec
<1>4. /\ task' \in [Tasks -> TaskRecord] /\ task'[t] = rec
      /\ \A u \in Tasks : u # t => task'[u] = task[u]
  BY <1>2, <1>3 DEF CampaignInv, CampaignTypeOK
<1>5. raced \subseteq raced' /\ raced' \subseteq raced \cup {c}
  BY DEF ExecuteTest
<1>6. CampaignTypeOK'
  <2>1. runs' \in 0..MaxRuns
    BY <1>3, CampaignAssumption DEF CampaignInv, CampaignTypeOK
  <2>2. QED BY <1>3, <1>4, <1>5, <2>1 DEF CampaignInv, CampaignTypeOK
<1>7. ASSUME c \notin raced' PROVE \A u \in Tasks : Active(u) => task[u].of # c
  <2> SUFFICES ASSUME NEW u \in Tasks, Active(u), task[u].of = c PROVE FALSE
    OBVIOUS
  <2>1. task[u].at # "tested" /\ c \notin raced
    BY <1>7, <1>5 DEF ExecuteTest
  <2>2. Sound(task[u]) /\ task[u].at \in {"marked", "sending", "answered"}
    BY <2>1 DEF CampaignInv, CampaignTypeOK, TaskRecord, TasksSound, Active
  <2>3. QED BY <1>1, <2>2 DEF Sound
<1>8. TasksHaveRows'
  BY <1>1, <1>2, <1>3, <1>4, RowIsNot DEF CampaignInv, TasksHaveRows, Active
<1>9. OneTask'
  BY <1>2, <1>4, <1>5, <1>7 DEF CampaignInv, OneTask, Active
<1>10. TasksSound'
  <2> SUFFICES ASSUME NEW u \in Tasks, Active(u)', task'[u].of \notin raced'
               PROVE  Sound(task[u])'
    BY DEF TasksSound
  <2>1. CASE u = t
    BY <1>1, <1>2, <1>3, <1>4, <2>1 DEF Sound
  <2>2. CASE u # t
    BY <1>3, <1>4, <1>5, <2>2 DEF CampaignInv, TasksSound, Active, Sound, Unsent
  <2>3. QED BY <2>1, <2>2
<1>11. UntouchedUnsent' /\ BlastOnce'
  BY <1>3, <1>5 DEF CampaignInv, UntouchedUnsent, BlastOnce, Untouched, Unsent
<1>12. QED BY <1>6, <1>8, <1>9, <1>10, <1>11 DEF CampaignInv

LEMMA MarkStep == ASSUME CampaignInv, NEW t \in Tasks, ExecuteMark(t) PROVE CampaignInv'
<1> DEFINE new == [task[t].copy EXCEPT !.status = "SENDING"]
           a == [task[t] EXCEPT !.at = "marked"]
           rec == [a EXCEPT !.copy = new]
<1>1. Active(t) /\ task[t].at = "tested" /\ SaveCampaign(t, new)
      /\ task' = [task EXCEPT ![t] = rec] /\ UNCHANGED <<recipient, contact, handed, raced, runs>>
  BY DEF ExecuteMark, Update, Active
<1>2. new \in CampaignRow /\ new.status = "SENDING"
  BY <1>1, TaskAtWork DEF CampaignRow, CampaignStatus
<1> HIDE DEF new
<1>3. a \in TaskRecord /\ a.at = "marked" /\ a.of = task[t].of
  BY ZenonT(40), <1>1, TaskAtWork DEF TaskRecord
<1> HIDE DEF a
<1>4. rec \in TaskRecord /\ rec.at = "marked" /\ rec.of = task[t].of
  BY <1>2, <1>3 DEF TaskRecord
<1>5. PICK x \in TaskRecord : /\ task' = [task EXCEPT ![t] = x]
                              /\ x.at = "marked" /\ x.of = task[t].of
  BY <1>1, <1>4
<1>6. ASSUME x.of \notin raced'
      PROVE  /\ campaign'[x.of] # NoRow /\ ~Executable(campaign'[x.of].status)
             /\ Unsent(x.of)
  <2>1. Sound(task[t]) /\ task[t].of \notin raced
    BY <1>1, <1>5, <1>6, TaskAtWork
  <2>2. task[t].owns /\ Executable(task[t].copy.status) /\ Executable(campaign[task[t].of].status)
    BY <1>1, <2>1 DEF Sound
  <2>3. campaign'[task[t].of].status = "SENDING"
    BY <1>1, <1>2, <2>2, SavedRow DEF Executable
  <2>4. Unsent(task[t].of)
    BY <1>1, <2>1, <2>2, TaskAtWork DEF Untouched
  <2>5. campaign'[task[t].of] # NoRow
    BY <1>1, <1>2, SavedRow, TaskAtWork, RowIsNot
  <2>6. QED BY <1>5, <2>3, <2>4, <2>5 DEF Executable
<1>7. x.of \notin raced' =>
         /\ x.at # "idle" => Sound(x)'
         /\ Untouched(x.of)' => Unsent(x.of)'
         /\ \A k \in Contacts : handed'[x.of][k] <= 1
  BY <1>1, <1>5, <1>6, TaskAtWork DEF Sound, Untouched, Unsent
<1>8. /\ campaign' \in [Campaigns -> CampaignRow \cup {NoRow}]
      /\ \A c \in Campaigns : /\ campaign'[c] = NoRow <=> campaign[c] = NoRow
                              /\ c # x.of => campaign'[c] = campaign[c]
  BY <1>1, <1>2, <1>5, SavedRow
<1>9. /\ recipient' \in [Campaigns -> [Contacts -> RecipientStatus \cup {NoRow}]]
      /\ handed' \in [Campaigns -> [Contacts -> Nat]]
      /\ raced \subseteq raced' /\ raced' \subseteq Campaigns /\ UNCHANGED <<contact, runs>>
      /\ Active(t)
  BY <1>1, TaskAtWork
<1>10. \A c \in Campaigns : /\ campaign'[c] = NoRow <=> campaign[c] = NoRow
                            /\ c # x.of => campaign'[c] = campaign[c] /\ handed'[c] = handed[c]
  BY <1>1, <1>8
<1>11. QED BY <1>5, <1>7, <1>8, <1>9, <1>10, TaskStep

\* Steps after the mark that hand over nothing, keep the campaign's status
\* and do not add to the task's list.
LEMMA QuietStep ==
  ASSUME CampaignInv, NEW t \in Tasks, Active(t), NEW rec \in TaskRecord,
         task' = [task EXCEPT ![t] = rec], rec.of = task[t].of,
         campaign' \in [Campaigns -> CampaignRow \cup {NoRow}],
         recipient' \in [Campaigns -> [Contacts -> RecipientStatus \cup {NoRow}]],
         \A c \in Campaigns : /\ campaign'[c] = NoRow <=> campaign[c] = NoRow
                              /\ c # rec.of => campaign'[c] = campaign[c],
         raced \subseteq raced', raced' \subseteq Campaigns, UNCHANGED <<contact, handed, runs>>,
         rec.of \notin raced' =>
           /\ Executable(campaign'[rec.of].status) => Executable(campaign[rec.of].status)
           /\ rec.at # "idle" => Sound(rec)'
  PROVE  CampaignInv'
<1>1. rec.of \notin raced' =>
         /\ Untouched(rec.of)' => Unsent(rec.of)'
         /\ \A k \in Contacts : handed'[rec.of][k] <= 1
  BY TaskAtWork DEF Untouched, Unsent
<1>2. QED BY <1>1, TaskAtWork, TaskStep

LEMMA ListStep == ASSUME CampaignInv, NEW t \in Tasks, ExecuteList(t) PROVE CampaignInv'
<1> DEFINE list == {k \in Contacts : recipient[task[t].of][k] = "PENDING"}
           a == [task[t] EXCEPT !.at = "sending"]
           b == [a EXCEPT !.ownsRows = TRUE]
           rec == [b EXCEPT !.list = list]
<1>1. Active(t) /\ task[t].at = "marked" /\ task' = [task EXCEPT ![t] = rec]
      /\ UNCHANGED <<campaign, recipient, contact, handed, raced, runs>>
  BY DEF ExecuteList, Update, Active
<1>2. list \subseteq Contacts
  OBVIOUS
<1> HIDE DEF list
<1>3. a \in TaskRecord /\ a.at = "sending" /\ a.of = task[t].of
  BY ZenonT(40), <1>1, TaskAtWork DEF TaskRecord
<1> HIDE DEF a
<1>4. b \in TaskRecord /\ b.at = "sending" /\ b.of = task[t].of
  BY <1>3 DEF TaskRecord
<1> HIDE DEF b
<1>5. rec \in TaskRecord /\ rec.at = "sending" /\ rec.of = task[t].of /\ rec.list \subseteq Contacts
  BY <1>2, <1>4 DEF TaskRecord
<1>6. PICK x \in TaskRecord : /\ task' = [task EXCEPT ![t] = x] /\ x.at = "sending"
                              /\ x.of = task[t].of /\ x.list \subseteq Contacts
  BY <1>1, <1>5
<1>7. x.of \notin raced' => Sound(x)'
  BY <1>1, <1>6, TaskAtWork DEF Sound, Unsent
<1>8. QED BY <1>1, <1>6, <1>7, TaskAtWork, QuietStep

\* A task that has taken a recipient off its list.
Off(x, k, ok) == [x EXCEPT !.list = @ \ {k}, !.at = "answered", !.current = k, !.ok = ok]

LEMMA TakenOff ==
  ASSUME NEW x \in TaskRecord, NEW k \in Contacts, NEW ok \in BOOLEAN
  PROVE  /\ Off(x, k, ok) \in TaskRecord /\ Off(x, k, ok).of = x.of
         /\ Off(x, k, ok).list = x.list \ {k} /\ Off(x, k, ok).at = "answered"
<1> DEFINE a == [x EXCEPT !.list = x.list \ {k}]
           b == [a EXCEPT !.at = "answered"]
           c == [b EXCEPT !.current = k]
           d == [c EXCEPT !.ok = ok]
<1>1. Off(x, k, ok) = d
  BY DEF Off
<1>2. a \in TaskRecord /\ a.of = x.of /\ a.list = x.list \ {k}
  BY DEF TaskRecord
<1> HIDE DEF a
<1>3. b \in TaskRecord /\ b.of = x.of /\ b.list = x.list \ {k} /\ b.at = "answered"
  BY <1>2 DEF TaskRecord
<1> HIDE DEF b
<1>4. c \in TaskRecord /\ c.of = x.of /\ c.list = x.list \ {k} /\ c.at = "answered"
  BY <1>3 DEF TaskRecord
<1> HIDE DEF c
<1>5. d \in TaskRecord /\ d.of = x.of /\ d.list = x.list \ {k} /\ d.at = "answered"
  BY <1>4 DEF TaskRecord
<1> HIDE DEF d
<1>6. QED BY <1>1, <1>5

LEMMA SendStep ==
  ASSUME CampaignInv, NEW t \in Tasks, NEW k \in Contacts, ExecuteSend(t, k)
  PROVE  CampaignInv'
<1>1. Active(t) /\ task[t].at = "sending" /\ k \in task[t].list
      /\ UNCHANGED <<campaign, recipient, contact, raced, runs>>
  BY DEF ExecuteSend, Active
<1>2. PICK rec \in TaskRecord :
        /\ task' = [task EXCEPT ![t] = rec]
        /\ rec.of = task[t].of /\ rec.list = task[t].list \ {k} /\ rec.at \in {"sending", "answered"}
  <2>1. CASE Update(t, [task[t] EXCEPT !.list = @ \ {k}])
    <3>1. task[t] \in TaskRecord
      BY <1>1, TaskAtWork
    <3>2. [task[t] EXCEPT !.list = @ \ {k}] \in TaskRecord
      BY <3>1 DEF TaskRecord
    <3>3. /\ [task[t] EXCEPT !.list = @ \ {k}].of = task[t].of
          /\ [task[t] EXCEPT !.list = @ \ {k}].list = task[t].list \ {k}
          /\ [task[t] EXCEPT !.list = @ \ {k}].at = task[t].at
      BY <3>1 DEF TaskRecord
    <3>4. QED BY <1>1, <2>1, <3>2, <3>3 DEF Update
  <2>2. CASE \E ok \in BOOLEAN : Update(t, Off(task[t], k, ok))
    <3>1. PICK ok \in BOOLEAN : task' = [task EXCEPT ![t] = Off(task[t], k, ok)]
      BY <2>2 DEF Update
    <3>2. task[t] \in TaskRecord
      BY <1>1, TaskAtWork
    <3>3. /\ Off(task[t], k, ok) \in TaskRecord /\ Off(task[t], k, ok).of = task[t].of
          /\ Off(task[t], k, ok).list = task[t].list \ {k}
          /\ Off(task[t], k, ok).at = "answered"
      BY <3>2, TakenOff
    <3>4. QED BY <3>1, <3>3
  <2>3. QED BY <2>1, <2>2 DEF ExecuteSend, Off
<1>3. \/ handed' = handed
      \/ handed' = [handed EXCEPT ![rec.of][k] = @ + 1]
  BY <1>2 DEF ExecuteSend
<1>4. /\ handed' \in [Campaigns -> [Contacts -> Nat]]
      /\ \A c \in Campaigns, l \in Contacts :
           handed'[c][l] # handed[c][l] => c = rec.of /\ l = k /\ handed'[c][l] = handed[c][l] + 1
      /\ \A c \in Campaigns : c # rec.of => handed'[c] = handed[c]
  <2>1. handed \in [Campaigns -> [Contacts -> Nat]] /\ rec.of \in Campaigns
    BY <1>1, <1>2, TaskAtWork
  <2>2. CASE handed' = handed
    BY <2>1, <2>2
  <2>3. CASE handed' = [handed EXCEPT ![rec.of][k] = @ + 1]
    <3> DEFINE row == [handed[rec.of] EXCEPT ![k] = @ + 1]
    <3>1. /\ row \in [Contacts -> Nat]
          /\ \A l \in Contacts :
               row[l] # handed[rec.of][l] => l = k /\ row[l] = handed[rec.of][l] + 1
      BY <2>1
    <3>2. handed' = [handed EXCEPT ![rec.of] = row]
      BY <2>1, <2>3
    <3> HIDE DEF row
    <3>3. /\ handed' \in [Campaigns -> [Contacts -> Nat]] /\ handed'[rec.of] = row
          /\ \A c \in Campaigns : c # rec.of => handed'[c] = handed[c]
      BY <2>1, <3>1, <3>2
    <3>4. QED BY <3>1, <3>3
  <2>4. QED BY <1>3, <2>2, <2>3
<1>5. rec.of \notin raced' =>
         /\ Sound(rec)'
         /\ Untouched(rec.of)' => Unsent(rec.of)'
         /\ \A l \in Contacts : handed'[rec.of][l] <= 1
  <2> SUFFICES ASSUME rec.of \notin raced
               PROVE  /\ Sound(rec)'
                      /\ Untouched(rec.of)' => Unsent(rec.of)'
                      /\ \A l \in Contacts : handed'[rec.of][l] <= 1
    BY <1>1
  <2>1. /\ ~Executable(campaign[rec.of].status) /\ campaign[rec.of] # NoRow
        /\ \A l \in task[t].list : handed[rec.of][l] = 0
        /\ \A l \in Contacts : handed[rec.of][l] \in Nat /\ handed[rec.of][l] <= 1
        /\ rec.of \in Campaigns /\ task[t].list \subseteq Contacts
    BY <1>1, <1>2, TaskAtWork, RowIsNot DEF Sound, TaskRecord
  <2>2. \A l \in Contacts : handed'[rec.of][l] <= 1
    BY <1>1, <1>4, <2>1
  <2>3. \A l \in rec.list : handed'[rec.of][l] = 0
    BY <1>2, <1>4, <2>1
  <2>4. QED BY <1>1, <1>2, <2>1, <2>2, <2>3 DEF Sound, Untouched
<1>6. QED BY ZenonT(40), <1>1, <1>2, <1>4, <1>5, TaskAtWork, TaskStep

LEMMA RecordStep == ASSUME CampaignInv, NEW t \in Tasks, ExecuteRecord(t) PROVE CampaignInv'
<1> DEFINE new == Counted(task[t].copy, task[t].ok)
           a == [task[t] EXCEPT !.at = "sending"]
           b == [a EXCEPT !.copy = new]
           rec == [b EXCEPT !.current = NoRow]
<1>1. Active(t) /\ task[t].at = "answered" /\ SaveCampaign(t, new)
      /\ task' = [task EXCEPT ![t] = rec] /\ UNCHANGED <<contact, handed, raced, runs>>
  BY DEF ExecuteRecord, Update, Active
<1>2. new \in CampaignRow /\ new.status = task[t].copy.status
  <2>1. task[t].copy \in CampaignRow
    BY <1>1, TaskAtWork
  <2>2. \A copy \in CampaignRow, ok \in BOOLEAN :
          Counted(copy, ok) \in CampaignRow /\ Counted(copy, ok).status = copy.status
    BY DEF Counted, CampaignRow
  <2>3. task[t].ok \in BOOLEAN
    BY <1>1, TaskAtWork DEF TaskRecord
  <2>4. QED BY <2>1, <2>2, <2>3
<1>3. recipient' \in [Campaigns -> [Contacts -> RecipientStatus \cup {NoRow}]]
  <2>1. {"SENT", "FAILED"} \subseteq RecipientStatus
    BY DEF RecipientStatus
  <2> HIDE DEF new, a, b, rec
  <2>2. recipient \in [Campaigns -> [Contacts -> RecipientStatus \cup {NoRow}]]
    BY <1>1, TaskAtWork
  <2>3. PICK o \in RecipientStatus :
          recipient' = IF task[t].ownsRows
                       THEN [recipient EXCEPT ![task[t].of][task[t].current] = o] ELSE recipient
    BY <2>1 DEF ExecuteRecord
  <2>4. QED BY <2>2, <2>3
<1> HIDE DEF new
<1>4. a \in TaskRecord /\ a.at = "sending" /\ a.of = task[t].of /\ a.list = task[t].list
  BY <1>1, TaskAtWork DEF TaskRecord
<1> HIDE DEF a
<1>5. b \in TaskRecord /\ b.at = "sending" /\ b.of = task[t].of /\ b.list = task[t].list
  BY <1>2, <1>4 DEF TaskRecord
<1> HIDE DEF b
<1>6. rec \in TaskRecord /\ rec.at = "sending" /\ rec.of = task[t].of /\ rec.list = task[t].list
  BY <1>5 DEF TaskRecord
<1> HIDE DEF rec
<1>7. PICK x \in TaskRecord : /\ task' = [task EXCEPT ![t] = x] /\ x.at = "sending"
                              /\ x.of = task[t].of /\ x.list = task[t].list
  BY <1>1, <1>6
<1>8. /\ campaign' \in [Campaigns -> CampaignRow \cup {NoRow}]
      /\ \A c \in Campaigns : /\ campaign'[c] = NoRow <=> campaign[c] = NoRow
                              /\ c # x.of => campaign'[c] = campaign[c]
      /\ campaign'[x.of].status = campaign[x.of].status
  BY <1>1, <1>2, <1>7, SavedRow
<1>9. x.of \notin raced' => Sound(x)'
  <2>1. x.of \notin raced => Sound(task[t])
    BY <1>1, <1>7, TaskAtWork
  <2>2. QED BY <1>1, <1>7, <1>8, <2>1 DEF Sound
<1>10. raced \subseteq raced' /\ raced' \subseteq Campaigns /\ UNCHANGED <<contact, handed, runs>>
  BY <1>1, TaskAtWork
<1>11. QED BY <1>1, <1>3, <1>7, <1>8, <1>9, <1>10, QuietStep

\* A task that ends, whatever it last wrote: NoTask is of no campaign that matters.
LEMMA EndStep ==
  ASSUME CampaignInv, NEW t \in Tasks, Active(t), Update(t, NoTask),
         campaign' \in [Campaigns -> CampaignRow \cup {NoRow}],
         \A c \in Campaigns : /\ campaign'[c] = NoRow <=> campaign[c] = NoRow
                              /\ c # task[t].of => campaign'[c] = campaign[c],
         task[t].of \notin raced =>
           (Executable(campaign'[task[t].of].status) => Executable(campaign[task[t].of].status)),
         UNCHANGED <<recipient, contact, handed, raced, runs>>
  PROVE  CampaignInv'
<1>1. /\ task' \in [Tasks -> TaskRecord] /\ ~Active(t)'
      /\ \A u \in Tasks : u # t => task'[u] = task[u]
  BY NoTaskTyped DEF CampaignInv, CampaignTypeOK, Update, Active
<1>2. CampaignTypeOK'
  BY <1>1 DEF CampaignInv, CampaignTypeOK
<1>3. \A u \in Tasks : Active(u)' => u # t /\ Active(u) /\ task'[u] = task[u] /\ task[u].of \in Campaigns
  BY <1>1 DEF Active, CampaignInv, CampaignTypeOK, TaskRecord
<1>4. TasksHaveRows' /\ OneTask'
  BY <1>3 DEF CampaignInv, TasksHaveRows, OneTask
<1>5. TasksSound'
  <2> SUFFICES ASSUME NEW u \in Tasks, Active(u)', task'[u].of \notin raced'
               PROVE  Sound(task[u])'
    BY DEF TasksSound
  <2>1. task[u].of # task[t].of /\ Sound(task[u]) /\ task'[u] = task[u] /\ task[u].of \in Campaigns
    BY <1>3 DEF CampaignInv, OneTask, TasksSound
  <2>2. campaign'[task[u].of] = campaign[task[u].of]
    BY <2>1
  <2>3. QED BY <2>1, <2>2 DEF Sound, Unsent
<1>6. UntouchedUnsent'
  <2> SUFFICES ASSUME NEW c \in Campaigns, c \notin raced, Untouched(c)' PROVE Unsent(c)
    BY DEF UntouchedUnsent, Unsent
  <2>1. Untouched(c)
    BY DEF Untouched
  <2>2. QED BY <2>1 DEF CampaignInv, UntouchedUnsent
<1>7. BlastOnce'
  BY DEF CampaignInv, BlastOnce
<1>8. QED BY <1>2, <1>4, <1>5, <1>6, <1>7 DEF CampaignInv

LEMMA DoneStep == ASSUME CampaignInv, NEW t \in Tasks, ExecuteDone(t) PROVE CampaignInv'
<1> DEFINE new == [task[t].copy EXCEPT !.status = "COMPLETED"]
<1>1. Active(t) /\ task[t].at = "sending" /\ SaveCampaign(t, new) /\ Update(t, NoTask)
      /\ UNCHANGED <<recipient, contact, handed, raced, runs>>
  BY DEF ExecuteDone, Active
<1>2. new \in CampaignRow /\ new.status = "COMPLETED"
  BY <1>1, TaskAtWork DEF CampaignRow, CampaignStatus
<1> HIDE DEF new
<1>3. /\ campaign' \in [Campaigns -> CampaignRow \cup {NoRow}]
      /\ \A c \in Campaigns : /\ campaign'[c] = NoRow <=> campaign[c] = NoRow
                              /\ c # task[t].of => campaign'[c] = campaign[c]
      /\ campaign'[task[t].of].status \in {campaign[task[t].of].status, "COMPLETED"}
  BY <1>1, <1>2, SavedRow
<1>4. QED BY <1>1, <1>3, EndStep DEF Executable

LEMMA DiesStep == ASSUME CampaignInv, NEW t \in Tasks, TaskDies(t) PROVE CampaignInv'
<1>1. Active(t) /\ Update(t, NoTask) /\ UNCHANGED <<campaign, recipient, contact, handed, raced, runs>>
  BY DEF TaskDies, Active
<1>2. QED BY <1>1, TaskAtWork, EndStep

LEMMA RequestEndsStep == ASSUME CampaignInv, NEW t \in Tasks, RequestEnds(t) PROVE CampaignInv'
<1> DEFINE a == [task[t] EXCEPT !.closed = TRUE]
           b == [a EXCEPT !.owns = FALSE]
           rec == [b EXCEPT !.ownsRows = FALSE]
<1>1. Active(t) /\ task' = [task EXCEPT ![t] = rec]
      /\ UNCHANGED <<campaign, recipient, contact, handed, runs>>
      /\ raced' = IF task[t].at = "tested" THEN raced \cup {task[t].of} ELSE raced
  BY DEF RequestEnds, Update, Active
<1>2. a \in TaskRecord /\ a.at = task[t].at /\ a.of = task[t].of /\ a.list = task[t].list
  BY <1>1, TaskAtWork DEF TaskRecord
<1> HIDE DEF a
<1>3. b \in TaskRecord /\ b.at = task[t].at /\ b.of = task[t].of /\ b.list = task[t].list
  BY <1>2 DEF TaskRecord
<1> HIDE DEF b
<1>4. rec \in TaskRecord /\ rec.at = task[t].at /\ rec.of = task[t].of /\ rec.list = task[t].list
  BY <1>3 DEF TaskRecord
<1> HIDE DEF rec
<1>5. PICK x \in TaskRecord : /\ task' = [task EXCEPT ![t] = x] /\ x.at = task[t].at
                              /\ x.of = task[t].of /\ x.list = task[t].list
  BY <1>1, <1>4
<1>6. raced \subseteq raced' /\ raced' \subseteq Campaigns
  BY <1>1, TaskAtWork
<1>7. x.of \notin raced' => Sound(x)'
  <2>1. x.of \notin raced' => Sound(task[t]) /\ task[t].at # "tested"
    BY <1>1, <1>5, <1>6, TaskAtWork
  <2>2. QED BY <1>1, <1>5, <2>1 DEF Sound, Unsent
<1>8. QED BY <1>1, <1>5, <1>6, <1>7, TaskAtWork, QuietStep

-----------------------------------------------------------------------------
(* All steps *)

LEMMA CampaignStep == CampaignInv /\ [CampaignNext]_campaignVars => CampaignInv'
<1> SUFFICES ASSUME CampaignInv, [CampaignNext]_campaignVars PROVE CampaignInv'
  OBVIOUS
<1>1. ASSUME NEW c \in Campaigns, CreateCampaign(c) \/ PrepareAudience(c) PROVE CampaignInv'
  BY <1>1, CreateStep, PrepareStep
<1>2. ASSUME NEW t \in Tasks, NEW c \in Campaigns, ExecuteTest(t, c) PROVE CampaignInv'
  BY <1>2, TestStep
<1>3. ASSUME NEW k \in Contacts, NEW to \in {"unreachable", "gone"}, ContactChanges(k, to)
      PROVE  CampaignInv'
  BY <1>3, ContactStep
<1>4. ASSUME NEW t \in Tasks,
             ExecuteMark(t) \/ ExecuteList(t) \/ ExecuteRecord(t) \/ ExecuteDone(t)
      PROVE  CampaignInv'
  BY <1>4, MarkStep, ListStep, RecordStep, DoneStep
<1>5. ASSUME NEW t \in Tasks, RequestEnds(t) \/ TaskDies(t) PROVE CampaignInv'
  BY <1>5, RequestEndsStep, DiesStep
<1>6. ASSUME NEW t \in Tasks, NEW k \in Contacts, ExecuteSend(t, k) PROVE CampaignInv'
  BY <1>6, SendStep
<1>7. CASE UNCHANGED campaignVars
  <2>1. CampaignTypeOK' /\ TasksHaveRows'
    BY <1>7 DEF campaignVars, CampaignInv, CampaignTypeOK, TasksHaveRows, Active
  <2>2. TasksSound' /\ OneTask'
    BY <1>7 DEF campaignVars, CampaignInv, TasksSound, OneTask, Active, Sound, Unsent
  <2>3. UntouchedUnsent' /\ BlastOnce'
    BY <1>7 DEF campaignVars, CampaignInv, UntouchedUnsent, BlastOnce, Untouched, Unsent
  <2>4. QED BY <2>1, <2>2, <2>3 DEF CampaignInv
<1>8. QED BY <1>1, <1>2, <1>3, <1>4, <1>5, <1>6, <1>7 DEF CampaignNext

-----------------------------------------------------------------------------
(* Counters: a second invariant, on top of the first *)

Of(c, status) == {k \in Contacts : recipient[c][k] = status}

Counts(c) == /\ campaign[c].sent = Cardinality(Of(c, "SENT"))
             /\ campaign[c].failed = Cardinality(Of(c, "FAILED"))

\* A campaign that nobody took up has no outcomes.
Clean(c) == /\ Of(c, "SENT") = {} /\ Of(c, "FAILED") = {}
            /\ campaign[c] # NoRow => campaign[c].sent = 0 /\ campaign[c].failed = 0

\* CompletedAddsUp for one campaign.
Adds(c) == (campaign[c] # NoRow /\ campaign[c].status = "COMPLETED") =>
             /\ \A k \in Contacts : recipient[c][k] = "PENDING" => contact[k] = "gone"
             /\ Counts(c)

\* A task whose session is open holds the campaign as it is, and what is PENDING
\* is on its list, in its hands, or without a customer.
Kept(x) == x.owns =>
    /\ x.copy = campaign[x.of] /\ Counts(x.of)
    /\ x.at \in {"sending", "answered"} =>
         /\ x.ownsRows
         /\ \A k \in x.list : recipient[x.of][k] = "PENDING"
         /\ \A k \in Contacts : recipient[x.of][k] = "PENDING" =>
              k \in x.list \/ contact[k] = "gone" \/ (x.at = "answered" /\ k = x.current)
    /\ x.at = "answered" => /\ x.current \in Contacts \ x.list
                            /\ recipient[x.of][x.current] = "PENDING"

TasksKeep == \A t \in Tasks : \A x \in {task[t]} : (x.at # "idle" /\ x.of \notin raced) =>
                Kept(x) /\ campaign[x.of].status # "COMPLETED"

RowsClean == \A c \in Campaigns \ raced : Untouched(c) => Clean(c)

TallyInv == CampaignInv /\ TasksKeep /\ RowsClean /\ CompletedAddsUp

LEMMA AddsUp == CompletedAddsUp <=> \A c \in Campaigns \ raced : Adds(c)
BY DEF CompletedAddsUp, Adds, Counts, Of

LEMMA AddsUpNext == CompletedAddsUp' <=> \A c \in Campaigns \ raced' : Adds(c)'
BY DEF CompletedAddsUp, Adds, Counts, Of

\* A campaign that a step does not touch.
LEMMA CampaignKept ==
  ASSUME NEW c, campaign'[c] = campaign[c], recipient'[c] = recipient[c], UNCHANGED contact
  PROVE  /\ Counts(c)' <=> Counts(c)
         /\ Clean(c)' <=> Clean(c)
         /\ Adds(c)' <=> Adds(c)
         /\ Untouched(c)' <=> Untouched(c)
<1>1. Of(c, "SENT")' = Of(c, "SENT") /\ Of(c, "FAILED")' = Of(c, "FAILED")
  BY DEF Of
<1>2. Counts(c)' <=> Counts(c)
  BY <1>1 DEF Counts
<1>3. Clean(c)' <=> Clean(c)
  BY <1>1 DEF Clean
<1>4. Untouched(c)' <=> Untouched(c)
  BY DEF Untouched
<1>5. QED BY <1>2, <1>3, <1>4 DEF Adds

LEMMA RecordKept ==
  ASSUME NEW x, campaign'[x.of] = campaign[x.of], recipient'[x.of] = recipient[x.of],
         UNCHANGED contact
  PROVE  Kept(x)' <=> Kept(x)
<1>1. Counts(x.of)' <=> Counts(x.of)
  BY CampaignKept
<1>2. QED BY <1>1 DEF Kept

\* A step of a task at work, or its end: again only its campaign matters.
LEMMA TallyStep ==
  ASSUME TallyInv, CampaignInv', NEW t \in Tasks, NEW o \in Campaigns, o = task[t].of, Active(t),
         NEW x \in TaskRecord, task' = [task EXCEPT ![t] = x], x.at # "idle" => x.of = o,
         \A c \in Campaigns \ {o} : campaign'[c] = campaign[c] /\ recipient'[c] = recipient[c],
         UNCHANGED contact, raced \subseteq raced',
         o \notin raced' => /\ x.at # "idle" => Kept(x)' /\ campaign'[o].status # "COMPLETED"
                            /\ Untouched(o)' => Clean(o)'
                            /\ Adds(o)'
  PROVE  TallyInv'
<1>1. /\ task'[t] = x
      /\ \A u \in Tasks : u # t => task'[u] = task[u]
      /\ \A u \in Tasks : task[u].of \in Campaigns
  BY DEF TallyInv, CampaignInv, CampaignTypeOK, TaskRecord
<1>2. TasksKeep'
  <2> SUFFICES ASSUME NEW u \in Tasks, NEW y, y = task'[u], y.at # "idle", y.of \notin raced'
               PROVE  Kept(y)' /\ campaign'[y.of].status # "COMPLETED"
    BY DEF TasksKeep
  <2>1. CASE u = t
    BY <1>1, <2>1
  <2>2. CASE u # t
    <3>1. y = task[u] /\ y.of \in Campaigns /\ y.of # o
      BY <1>1, <2>2 DEF TallyInv, CampaignInv, OneTask, Active
    <3>2. Kept(y) /\ campaign[y.of].status # "COMPLETED"
      BY <3>1 DEF TallyInv, TasksKeep
    <3>3. campaign'[y.of] = campaign[y.of] /\ recipient'[y.of] = recipient[y.of]
      BY <3>1
    <3>4. QED BY <3>2, <3>3, RecordKept
  <2>3. QED BY <2>1, <2>2
<1>3. ASSUME NEW c \in Campaigns, c \notin raced'
      PROVE  (Untouched(c)' => Clean(c)') /\ Adds(c)'
  <2>1. CASE c = o
    BY <1>3, <2>1
  <2>2. CASE c # o
    <3>1. campaign'[c] = campaign[c] /\ recipient'[c] = recipient[c]
      BY <2>2
    <3>2. (Untouched(c) => Clean(c)) /\ Adds(c)
      BY <1>3, AddsUp DEF TallyInv, RowsClean
    <3>3. QED BY <3>1, <3>2, CampaignKept
  <2>3. QED BY <2>1, <2>2
<1>4. RowsClean' /\ CompletedAddsUp'
  <2>1. RowsClean' /\ \A c \in Campaigns \ raced' : Adds(c)'
    BY <1>3 DEF RowsClean
  <2>2. QED BY <2>1, AddsUpNext
<1>5. QED BY <1>2, <1>4 DEF TallyInv

\* The same with the hypotheses about the step under a name.
Tallies(t, o, x) ==
    /\ o = task[t].of /\ Active(t) /\ task' = [task EXCEPT ![t] = x]
    /\ x.at # "idle" => x.of = o
    /\ \A c \in Campaigns \ {o} : campaign'[c] = campaign[c] /\ recipient'[c] = recipient[c]
    /\ UNCHANGED contact /\ raced \subseteq raced'
    /\ o \notin raced' => /\ x.at # "idle" => Kept(x)' /\ campaign'[o].status # "COMPLETED"
                          /\ Untouched(o)' => Clean(o)'
                          /\ Adds(o)'

LEMMA TalliesStep ==
  ASSUME TallyInv, CampaignInv', NEW t \in Tasks, NEW o \in Campaigns, NEW x \in TaskRecord,
         Tallies(t, o, x)
  PROVE  TallyInv'
BY TallyStep DEF Tallies

\* What the first invariant says of a campaign being executed.
LEMMA AtTally ==
  ASSUME TallyInv, NEW t \in Tasks, Active(t)
  PROVE  /\ task[t] \in TaskRecord /\ task[t].of \in Campaigns /\ task[t].copy \in CampaignRow
         /\ campaign[task[t].of] \in CampaignRow
         /\ task[t].of \notin raced =>
              /\ Sound(task[t]) /\ Kept(task[t]) /\ campaign[task[t].of].status # "COMPLETED"
              /\ Untouched(task[t].of) => Clean(task[t].of)
<1>1. /\ task[t] \in TaskRecord /\ task[t].of \in Campaigns /\ task[t].copy \in CampaignRow
      /\ campaign[task[t].of] \in CampaignRow
      /\ task[t].of \notin raced => Sound(task[t])
  BY TaskAtWork DEF TallyInv
<1>2. task[t].of \notin raced => Kept(task[t]) /\ campaign[task[t].of].status # "COMPLETED"
  BY DEF TallyInv, TasksKeep, Active
<1>3. QED BY <1>1, <1>2 DEF TallyInv, RowsClean

\* A task that holds the campaign as it is writes it as it wants it.
LEMMA SavedCopy ==
  ASSUME CampaignInv, NEW t \in Tasks, Active(t), NEW new \in CampaignRow, SaveCampaign(t, new),
         task[t].owns, task[t].copy = campaign[task[t].of]
  PROVE  campaign'[task[t].of] = new
<1> DEFINE o == task[t].of
           row == campaign[o]
           saved == [f \in DOMAIN new |-> IF new[f] = task[t].copy[f] THEN row[f] ELSE new[f]]
<1>1. o \in Campaigns /\ DOMAIN campaign = Campaigns
  BY TaskAtWork
<1>2. campaign' = [campaign EXCEPT ![o] = saved]
  BY DEF SaveCampaign
<1>3. saved = new
  <2>1. \A f \in DOMAIN new : saved[f] = new[f]
    OBVIOUS
  <2>2. new = [f \in DOMAIN new |-> new[f]]
    BY DEF CampaignRow
  <2>3. QED BY <2>1, <2>2
<1>4. QED BY <1>1, <1>2, <1>3

-----------------------------------------------------------------------------
(* The steps of the second invariant *)

LEMMA TallyInitial == CampaignInit => TallyInv
<1> SUFFICES ASSUME CampaignInit PROVE TallyInv
  OBVIOUS
<1>1. \A t \in Tasks : task[t].at = "idle"
  BY NoTaskTyped DEF CampaignInit
<1>2. TasksKeep
  BY <1>1 DEF TasksKeep
<1>3. \A c \in Campaigns : campaign[c] = NoRow /\ \A k \in Contacts : recipient[c][k] = NoRow
  BY DEF CampaignInit
<1>4. NoRow \notin {"SENT", "FAILED"}
  BY CampaignAssumption DEF RecipientStatus
<1>5. RowsClean
  BY <1>3, <1>4 DEF RowsClean, Clean, Of
<1>6. CompletedAddsUp
  BY <1>3, AddsUp DEF Adds
<1>7. QED BY <1>2, <1>5, <1>6, CampaignInitial DEF TallyInv

LEMMA CreateTally == ASSUME TallyInv, NEW c \in Campaigns, CreateCampaign(c) PROVE TallyInv'
<1> DEFINE row == [status |-> "DRAFT", total |-> 0, sent |-> 0, failed |-> 0]
<1>1. /\ campaign[c] = NoRow /\ campaign'[c] = row
      /\ \A d \in Campaigns : d # c => campaign'[d] = campaign[d]
      /\ UNCHANGED <<recipient, contact, task, handed, raced, runs>>
  BY DEF CreateCampaign, TallyInv, CampaignInv, CampaignTypeOK
<1>2. CampaignInv'
  BY CreateStep DEF TallyInv
<1>3. \A t \in Tasks : task[t].at # "idle" => task[t].of \in Campaigns /\ task[t].of # c
  BY <1>1 DEF TallyInv, CampaignInv, CampaignTypeOK, TaskRecord, TasksHaveRows, Active
<1>4. TasksKeep'
  <2> SUFFICES ASSUME NEW u \in Tasks, NEW y, y = task'[u], y.at # "idle", y.of \notin raced'
               PROVE  Kept(y)' /\ campaign'[y.of].status # "COMPLETED"
    BY DEF TasksKeep
  <2>1. y = task[u] /\ campaign'[y.of] = campaign[y.of] /\ y.of \notin raced
    BY <1>1, <1>3
  <2>2. Kept(y) /\ campaign[y.of].status # "COMPLETED"
    BY <2>1 DEF TallyInv, TasksKeep
  <2>3. QED BY <1>1, <2>1, <2>2, RecordKept
<1>5. ASSUME NEW d \in Campaigns, d \notin raced'
      PROVE  (Untouched(d)' => Clean(d)') /\ Adds(d)'
  <2>1. CASE d = c
    <3>1. Clean(c)
      BY <1>1, <1>5, <2>1 DEF TallyInv, RowsClean, Untouched
    <3>2. Of(c, "SENT")' = {} /\ Of(c, "FAILED")' = {}
      BY <1>1, <3>1 DEF Clean, Of
    <3>3. row.sent = 0 /\ row.failed = 0 /\ row.status # "COMPLETED"
      OBVIOUS
    <3> HIDE DEF row
    <3>4. Clean(c)' /\ Adds(c)'
      BY <1>1, <3>2, <3>3 DEF Clean, Adds
    <3>5. QED BY <2>1, <3>4
  <2>2. CASE d # c
    <3>1. (Untouched(d) => Clean(d)) /\ Adds(d)
      BY <1>1, <1>5, AddsUp DEF TallyInv, RowsClean
    <3>2. QED BY <1>1, <2>2, <3>1, CampaignKept
  <2>3. QED BY <2>1, <2>2
<1>6. RowsClean' /\ CompletedAddsUp'
  <2>1. RowsClean' /\ \A d \in Campaigns \ raced' : Adds(d)'
    BY <1>5 DEF RowsClean
  <2>2. QED BY <2>1, AddsUpNext
<1>7. QED BY <1>2, <1>4, <1>6 DEF TallyInv

LEMMA PrepareTally == ASSUME TallyInv, NEW c \in Campaigns, PrepareAudience(c) PROVE TallyInv'
<1>1. /\ campaign[c] # NoRow /\ campaign[c] \in CampaignRow
      /\ \A d \in Campaigns : d # c => campaign'[d] = campaign[d] /\ recipient'[d] = recipient[d]
      /\ UNCHANGED <<contact, task, handed, runs>>
      /\ raced \subseteq raced' /\ raced' \subseteq raced \cup {c}
  BY DEF PrepareAudience, TallyInv, CampaignInv, CampaignTypeOK
<1>2. CampaignInv'
  BY PrepareStep DEF TallyInv
<1>3. ASSUME c \notin raced'
      PROVE  /\ campaign[c].status = "DRAFT" /\ c \notin raced
             /\ \A t \in Tasks : task[t].at # "idle" => task[t].of # c
  BY <1>3, <1>1 DEF PrepareAudience
<1>4. TasksKeep'
  <2> SUFFICES ASSUME NEW u \in Tasks, NEW y, y = task'[u], y.at # "idle", y.of \notin raced'
               PROVE  Kept(y)' /\ campaign'[y.of].status # "COMPLETED"
    BY DEF TasksKeep
  <2>1. y = task[u] /\ y.of \in Campaigns /\ y.of # c /\ y.of \notin raced
    BY <1>1, <1>3 DEF TallyInv, CampaignInv, CampaignTypeOK, TaskRecord
  <2>2. Kept(y) /\ campaign[y.of].status # "COMPLETED"
    BY <2>1 DEF TallyInv, TasksKeep
  <2>3. QED BY <1>1, <2>1, <2>2, RecordKept
<1>5. ASSUME NEW d \in Campaigns, d \notin raced'
      PROVE  (Untouched(d)' => Clean(d)') /\ Adds(d)'
  <2>1. CASE d = c
    <3>1. Clean(c)
      BY <1>1, <1>3, <1>5, <2>1 DEF TallyInv, RowsClean, Untouched, Executable
    <3>2. \A k \in Contacts : recipient'[c][k] \in {"PENDING", NoRow}
      BY DEF PrepareAudience, TallyInv, CampaignInv, CampaignTypeOK
    <3>3. NoRow \notin {"SENT", "FAILED"}
      BY CampaignAssumption DEF RecipientStatus
    <3>4. Of(c, "SENT")' = {} /\ Of(c, "FAILED")' = {}
      BY <3>2, <3>3 DEF Of
    <3>5. /\ campaign'[c].sent = campaign[c].sent /\ campaign'[c].failed = campaign[c].failed
          /\ campaign'[c].status = campaign[c].status
      <4> DEFINE n == Cardinality(Addressed)
                 new == [campaign[c] EXCEPT !.total = n]
      <4>1. campaign'[c] = new
        BY DEF PrepareAudience, TallyInv, CampaignInv, CampaignTypeOK
      <4> HIDE DEF n
      <4>2. new.sent = campaign[c].sent /\ new.failed = campaign[c].failed
            /\ new.status = campaign[c].status
        BY <1>1 DEF CampaignRow
      <4>3. QED BY <4>1, <4>2
    <3>6. Clean(c)'
      BY <1>1, <3>1, <3>4, <3>5 DEF Clean
    <3>7. Adds(c)'
      BY <1>3, <1>5, <2>1, <3>5 DEF Adds
    <3>8. QED BY <2>1, <3>6, <3>7
  <2>2. CASE d # c
    <3>1. (Untouched(d) => Clean(d)) /\ Adds(d)
      BY <1>1, <1>5, AddsUp DEF TallyInv, RowsClean
    <3>2. QED BY <1>1, <2>2, <3>1, CampaignKept
  <2>3. QED BY <2>1, <2>2
<1>6. RowsClean' /\ CompletedAddsUp'
  <2>1. RowsClean' /\ \A d \in Campaigns \ raced' : Adds(d)'
    BY <1>5 DEF RowsClean
  <2>2. QED BY <2>1, AddsUpNext
<1>7. QED BY <1>2, <1>4, <1>6 DEF TallyInv

LEMMA ContactTally ==
  ASSUME TallyInv, NEW k \in Contacts, NEW to \in {"unreachable", "gone"}, ContactChanges(k, to)
  PROVE  TallyInv'
<1>1. /\ UNCHANGED <<campaign, recipient, task, handed, raced, runs>>
      /\ \A l \in Contacts : contact[l] = "gone" => contact'[l] = "gone"
  BY DEF ContactChanges, TallyInv, CampaignInv, CampaignTypeOK
<1>2. CampaignInv'
  BY ContactStep DEF TallyInv
<1>3. \A c : /\ Counts(c)' <=> Counts(c)
             /\ Clean(c)' <=> Clean(c)
             /\ Untouched(c)' <=> Untouched(c)
  BY <1>1 DEF Counts, Clean, Untouched, Of
<1>4. \A c : Adds(c) => Adds(c)'
  BY <1>1, <1>3 DEF Adds
<1>5. \A x : Kept(x) => Kept(x)'
  <2> SUFFICES ASSUME NEW x, Kept(x) PROVE Kept(x)'
    OBVIOUS
  <2>1. Counts(x.of)' <=> Counts(x.of)
    BY <1>3
  <2>2. QED BY <1>1, <2>1 DEF Kept
<1>6. TasksKeep'
  BY <1>1, <1>5 DEF TallyInv, TasksKeep
<1>7. RowsClean'
  BY <1>1, <1>3 DEF TallyInv, RowsClean
<1>8. CompletedAddsUp'
  BY <1>1, <1>4, AddsUp, AddsUpNext DEF TallyInv
<1>9. QED BY <1>2, <1>6, <1>7, <1>8 DEF TallyInv

\* A step that changes neither rows nor customers.
LEMMA RowsStay ==
  ASSUME TallyInv, UNCHANGED <<campaign, recipient, contact>>, raced \subseteq raced'
  PROVE  /\ \A c \in Campaigns \ raced' : (Untouched(c)' => Clean(c)') /\ Adds(c)'
         /\ RowsClean' /\ CompletedAddsUp'
<1>1. \A c \in Campaigns \ raced' : (Untouched(c)' => Clean(c)') /\ Adds(c)'
  <2> SUFFICES ASSUME NEW c \in Campaigns, c \notin raced'
               PROVE  (Untouched(c)' => Clean(c)') /\ Adds(c)'
    OBVIOUS
  <2>1. (Untouched(c) => Clean(c)) /\ Adds(c)
    BY AddsUp DEF TallyInv, RowsClean
  <2>2. QED BY <2>1, CampaignKept
<1>2. RowsClean'
  BY <1>1 DEF RowsClean
<1>3. CompletedAddsUp'
  BY <1>1, AddsUpNext
<1>4. QED BY <1>1, <1>2, <1>3

LEMMA CleanCounts == ASSUME NEW c, Clean(c), campaign[c] # NoRow PROVE Counts(c)
BY FS_EmptySet DEF Clean, Counts

LEMMA TestTally ==
  ASSUME TallyInv, NEW t \in Tasks, NEW c \in Campaigns, ExecuteTest(t, c)
  PROVE  TallyInv'
<1> DEFINE rec == [NoTask EXCEPT !.at = "tested", !.of = c, !.copy = campaign[c]]
<1>1. /\ UNCHANGED <<campaign, recipient, contact, handed>> /\ raced \subseteq raced'
      /\ campaign[c] # NoRow /\ Executable(campaign[c].status)
      /\ task' = [task EXCEPT ![t] = rec]
  BY DEF ExecuteTest, Update
<1>2. CampaignInv'
  BY TestStep DEF TallyInv
<1>3. rec.at = "tested" /\ rec.of = c /\ rec.copy = campaign[c]
  <2> DEFINE r == campaign[c]
  <2>1. rec = [NoTask EXCEPT !.at = "tested", !.of = c, !.copy = r]
    OBVIOUS
  <2> HIDE DEF r
  <2>2. [NoTask EXCEPT !.at = "tested", !.of = c, !.copy = r].at = "tested"
        /\ [NoTask EXCEPT !.at = "tested", !.of = c, !.copy = r].of = c
        /\ [NoTask EXCEPT !.at = "tested", !.of = c, !.copy = r].copy = r
    BY DEF NoTask
  <2>3. QED BY <2>1, <2>2 DEF r
<1> HIDE DEF rec
<1>4. PICK x : task' = [task EXCEPT ![t] = x] /\ x.at = "tested" /\ x.of = c /\ x.copy = campaign[c]
  BY <1>1, <1>3
<1>5. task'[t] = x /\ \A u \in Tasks : u # t => task'[u] = task[u]
  BY <1>4 DEF TallyInv, CampaignInv, CampaignTypeOK
<1>6. TasksKeep'
  <2> SUFFICES ASSUME NEW u \in Tasks, NEW y, y = task'[u], y.at # "idle", y.of \notin raced'
               PROVE  Kept(y)' /\ campaign'[y.of].status # "COMPLETED"
    BY DEF TasksKeep
  <2>1. CASE u = t
    <3>1. y = x /\ c \notin raced
      BY <1>1, <1>4, <1>5, <2>1
    <3>2. Counts(c)
      BY <1>1, <3>1, CleanCounts DEF TallyInv, RowsClean, Untouched
    <3>3. Counts(c)'
      BY <1>1, <3>2, CampaignKept
    <3>4. QED BY <1>1, <1>4, <3>1, <3>3 DEF Kept, Executable
  <2>2. CASE u # t
    <3>1. Kept(y) /\ campaign[y.of].status # "COMPLETED"
      BY <1>1, <1>5, <2>2 DEF TallyInv, TasksKeep
    <3>2. QED BY <1>1, <3>1, RecordKept
  <2>3. QED BY <2>1, <2>2
<1>7. QED BY <1>1, <1>2, <1>6, RowsStay DEF TallyInv

\* Outcomes and counters that a step leaves alone.
LEMMA CountsKept ==
  ASSUME NEW c, recipient'[c] = recipient[c], campaign'[c].sent = campaign[c].sent,
         campaign'[c].failed = campaign[c].failed, Counts(c)
  PROVE  Counts(c)'
<1>1. Of(c, "SENT")' = Of(c, "SENT") /\ Of(c, "FAILED")' = Of(c, "FAILED")
  BY DEF Of
<1>2. QED BY <1>1 DEF Counts

LEMMA MarkTally == ASSUME TallyInv, NEW t \in Tasks, ExecuteMark(t) PROVE TallyInv'
<1> DEFINE new == [task[t].copy EXCEPT !.status = "SENDING"]
           a == [task[t] EXCEPT !.at = "marked"]
           rec == [a EXCEPT !.copy = new]
<1>1. Active(t) /\ task[t].at = "tested" /\ SaveCampaign(t, new)
      /\ task' = [task EXCEPT ![t] = rec] /\ UNCHANGED <<recipient, contact, handed, raced, runs>>
  BY DEF ExecuteMark, Update, Active
<1>2. PICK o \in Campaigns : o = task[t].of
  BY <1>1, AtTally
<1>3. new \in CampaignRow /\ new.status = "SENDING"
      /\ new.sent = task[t].copy.sent /\ new.failed = task[t].copy.failed
  BY <1>1, AtTally DEF CampaignRow, CampaignStatus
<1>4. PICK r \in CampaignRow :
        /\ r = new /\ r.status = "SENDING" /\ SaveCampaign(t, r)
        /\ r.sent = task[t].copy.sent /\ r.failed = task[t].copy.failed
  BY <1>1, <1>3
<1> HIDE DEF new
<1>5. a \in TaskRecord /\ a.at = "marked" /\ a.of = o
  BY <1>1, <1>2, AtTally DEF TaskRecord
<1> HIDE DEF a
<1>6. rec \in TaskRecord /\ rec.at = "marked" /\ rec.of = o /\ rec.copy = r
  BY <1>4, <1>5 DEF TaskRecord
<1> HIDE DEF rec
<1>7. PICK x \in TaskRecord : /\ task' = [task EXCEPT ![t] = x]
                              /\ x.at = "marked" /\ x.of = o /\ x.copy = r
  BY <1>1, <1>6
<1>8. \A c \in Campaigns \ {o} : campaign'[c] = campaign[c] /\ recipient'[c] = recipient[c]
  BY <1>1, <1>2, <1>4, SavedRow DEF TallyInv
<1>9. ASSUME o \notin raced'
      PROVE  /\ Kept(x)' /\ campaign'[o].status # "COMPLETED"
             /\ Untouched(o)' => Clean(o)'
             /\ Adds(o)'
  <2>1. task[t].owns /\ task[t].copy = campaign[o] /\ Counts(o)
    BY <1>1, <1>2, <1>9, AtTally DEF Sound, Kept
  <2>2. campaign'[o] = r
    BY <1>1, <1>2, <1>4, <2>1, SavedCopy DEF TallyInv
  <2>3. Counts(o)'
    BY <1>1, <1>4, <2>1, <2>2, CountsKept
  <2>4. Kept(x)'
    BY <1>7, <2>2, <2>3 DEF Kept
  <2>5. QED BY <1>4, <2>2, <2>4, RowIsNot DEF Untouched, Executable, Adds
<1>10. CampaignInv' /\ raced \subseteq raced'
  BY <1>1, MarkStep DEF TallyInv
<1>11. Tallies(t, o, x)
  BY <1>1, <1>2, <1>7, <1>8, <1>9, <1>10 DEF Tallies
<1>12. QED BY <1>2, <1>7, <1>10, <1>11, TalliesStep

LEMMA ListTally == ASSUME TallyInv, NEW t \in Tasks, ExecuteList(t) PROVE TallyInv'
<1> DEFINE list == {k \in Contacts : recipient[task[t].of][k] = "PENDING"}
           a == [task[t] EXCEPT !.at = "sending"]
           b == [a EXCEPT !.ownsRows = TRUE]
           rec == [b EXCEPT !.list = list]
<1>1. Active(t) /\ task[t].at = "marked" /\ task' = [task EXCEPT ![t] = rec]
      /\ UNCHANGED <<campaign, recipient, contact, handed, raced, runs>>
  BY DEF ExecuteList, Update, Active
<1>2. PICK o \in Campaigns : o = task[t].of
  BY <1>1, AtTally
<1>3. PICK l \in SUBSET Contacts : l = list
  OBVIOUS
<1>4. \A k \in Contacts : k \in l <=> recipient[o][k] = "PENDING"
  BY <1>2, <1>3
<1> HIDE DEF list
<1>5. /\ a \in TaskRecord /\ a.at = "sending" /\ a.of = o
      /\ a.copy = task[t].copy /\ a.owns = task[t].owns
  BY <1>1, <1>2, AtTally DEF TaskRecord
<1> HIDE DEF a
<1>6. /\ b \in TaskRecord /\ b.at = "sending" /\ b.of = o /\ b.ownsRows
      /\ b.copy = task[t].copy /\ b.owns = task[t].owns
  BY <1>5 DEF TaskRecord
<1> HIDE DEF b
<1>7. /\ rec \in TaskRecord /\ rec.at = "sending" /\ rec.of = o /\ rec.ownsRows
      /\ rec.copy = task[t].copy /\ rec.owns = task[t].owns /\ rec.list = l
  BY <1>3, <1>6 DEF TaskRecord
<1>8. PICK x \in TaskRecord :
        /\ task' = [task EXCEPT ![t] = x] /\ x.at = "sending" /\ x.of = o /\ x.ownsRows
        /\ x.copy = task[t].copy /\ x.owns = task[t].owns /\ x.list = l
  BY <1>1, <1>7
<1>9. ASSUME o \notin raced' PROVE Kept(x)' /\ campaign'[o].status # "COMPLETED"
  <2>1. Kept(task[t]) /\ campaign[o].status # "COMPLETED"
    BY <1>1, <1>2, <1>9, AtTally
  <2>2. Counts(o)' <=> Counts(o)
    BY <1>1, CampaignKept
  <2>3. x.owns => x.copy = campaign'[o] /\ Counts(o)'
    BY <1>1, <1>2, <1>8, <2>1, <2>2 DEF Kept
  <2>4. QED BY <1>1, <1>4, <1>8, <2>1, <2>3 DEF Kept
<1>10. CampaignInv' /\ raced \subseteq raced'
  BY <1>1, ListStep DEF TallyInv
<1>11. o \notin raced' => (Untouched(o)' => Clean(o)') /\ Adds(o)'
  BY <1>1, <1>10, RowsStay
<1>12. Tallies(t, o, x)
  BY <1>1, <1>2, <1>8, <1>9, <1>10, <1>11 DEF Tallies
<1>13. QED BY <1>2, <1>8, <1>10, <1>11, <1>12, TalliesStep

LEMMA TakenOffKeeps ==
  ASSUME NEW x \in TaskRecord, NEW k \in Contacts, NEW ok \in BOOLEAN
  PROVE  /\ Off(x, k, ok).copy = x.copy /\ Off(x, k, ok).owns = x.owns
         /\ Off(x, k, ok).ownsRows = x.ownsRows /\ Off(x, k, ok).current = k
BY DEF Off, TaskRecord

LEMMA SendTally ==
  ASSUME TallyInv, NEW t \in Tasks, NEW k \in Contacts, ExecuteSend(t, k)
  PROVE  TallyInv'
<1>1. Active(t) /\ task[t].at = "sending" /\ k \in task[t].list
      /\ UNCHANGED <<campaign, recipient, contact, raced, runs>>
  BY DEF ExecuteSend, Active
<1>2. PICK o \in Campaigns : o = task[t].of
  BY <1>1, AtTally
<1>3. task[t] \in TaskRecord
  BY <1>1, AtTally
<1>4. PICK x \in TaskRecord :
        /\ task' = [task EXCEPT ![t] = x]
        /\ x.of = o /\ x.list = task[t].list \ {k} /\ x.copy = task[t].copy
        /\ x.owns = task[t].owns /\ x.ownsRows = task[t].ownsRows
        /\ \/ x.at = "sending" /\ contact[k] = "gone"
           \/ x.at = "answered" /\ x.current = k
  <2>1. CASE contact[k] = "gone" /\ Update(t, [task[t] EXCEPT !.list = @ \ {k}])
    <3> DEFINE rec == [task[t] EXCEPT !.list = @ \ {k}]
    <3>1. /\ rec \in TaskRecord /\ rec.of = task[t].of /\ rec.list = task[t].list \ {k}
          /\ rec.copy = task[t].copy /\ rec.owns = task[t].owns
          /\ rec.ownsRows = task[t].ownsRows /\ rec.at = task[t].at
      BY <1>3 DEF TaskRecord
    <3>2. task' = [task EXCEPT ![t] = rec]
      BY <2>1 DEF Update
    <3> HIDE DEF rec
    <3>3. QED BY <1>1, <1>2, <2>1, <3>1, <3>2
  <2>2. CASE \E ok \in BOOLEAN : Update(t, Off(task[t], k, ok))
    <3>1. PICK ok \in BOOLEAN : task' = [task EXCEPT ![t] = Off(task[t], k, ok)]
      BY <2>2 DEF Update
    <3> DEFINE rec == Off(task[t], k, ok)
    <3>2. /\ rec \in TaskRecord /\ rec.of = task[t].of /\ rec.at = "answered"
          /\ rec.list = task[t].list \ {k}
      BY <1>3, TakenOff
    <3>3. /\ rec.copy = task[t].copy /\ rec.owns = task[t].owns
          /\ rec.ownsRows = task[t].ownsRows /\ rec.current = k
      BY <1>3, TakenOffKeeps
    <3>4. task' = [task EXCEPT ![t] = rec]
      BY <3>1
    <3> HIDE DEF rec
    <3>5. QED BY <1>2, <3>2, <3>3, <3>4
  <2>3. QED BY <2>1, <2>2 DEF ExecuteSend, Off
<1>5. ASSUME o \notin raced' PROVE Kept(x)' /\ campaign'[o].status # "COMPLETED"
  <2>1. Kept(task[t]) /\ campaign[o].status # "COMPLETED"
    BY <1>1, <1>2, <1>5, AtTally
  <2>2. Counts(o)' <=> Counts(o)
    BY <1>1, CampaignKept
  <2>3. x.owns => x.copy = campaign'[o] /\ Counts(o)' /\ x.ownsRows
    BY <1>1, <1>2, <1>4, <2>1, <2>2 DEF Kept
  <2>4. x.owns => /\ \A l \in x.list : recipient'[o][l] = "PENDING"
                  /\ recipient'[o][k] = "PENDING" /\ k \notin x.list
    BY <1>1, <1>2, <1>4, <2>1 DEF Kept
  <2>5. x.owns => \A l \in Contacts : recipient'[o][l] = "PENDING" =>
          l \in x.list \/ contact'[l] = "gone" \/ (x.at = "answered" /\ l = x.current)
    BY <1>1, <1>2, <1>4, <2>1 DEF Kept
  <2>6. QED BY <1>1, <1>4, <2>1, <2>3, <2>4, <2>5 DEF Kept
<1>6. CampaignInv' /\ raced \subseteq raced'
  BY <1>1, SendStep DEF TallyInv
<1>7. o \notin raced' => (Untouched(o)' => Clean(o)') /\ Adds(o)'
  BY <1>1, <1>6, RowsStay
<1>8. QED BY <1>1, <1>2, <1>4, <1>5, <1>6, <1>7, TallyStep

\* One more recipient with an outcome is one more in its count.
LEMMA OneMore ==
  ASSUME NEW c, NEW k \in Contacts, NEW s, recipient[c][k] # s,
         Of(c, s)' = Of(c, s) \cup {k}
  PROVE  Cardinality(Of(c, s)') = Cardinality(Of(c, s)) + 1
<1>1. IsFiniteSet(Of(c, s))
  <2>1. Of(c, s) \subseteq Contacts
    BY DEF Of
  <2>2. QED BY <2>1, CampaignAssumption, FS_Subset
<1>2. k \notin Of(c, s)
  BY DEF Of
<1>3. QED BY <1>1, <1>2, FS_AddElement

LEMMA CountedRow ==
  ASSUME NEW copy \in CampaignRow, NEW ok \in BOOLEAN
  PROVE  /\ Counted(copy, ok) \in CampaignRow /\ Counted(copy, ok).status = copy.status
         /\ Counted(copy, ok).sent = copy.sent + (IF ok THEN 1 ELSE 0)
         /\ Counted(copy, ok).failed = copy.failed + (IF ok THEN 0 ELSE 1)
BY DEF Counted, CampaignRow

LEMMA RecordTally == ASSUME TallyInv, NEW t \in Tasks, ExecuteRecord(t) PROVE TallyInv'
<1> DEFINE new == Counted(task[t].copy, task[t].ok)
           a == [task[t] EXCEPT !.at = "sending"]
           b == [a EXCEPT !.copy = new]
           rec == [b EXCEPT !.current = NoRow]
<1>1. Active(t) /\ task[t].at = "answered" /\ SaveCampaign(t, new)
      /\ task' = [task EXCEPT ![t] = rec] /\ UNCHANGED <<contact, handed, raced, runs>>
  BY DEF ExecuteRecord, Update, Active
<1>2. PICK o \in Campaigns : o = task[t].of
  BY <1>1, AtTally
<1>3. task[t] \in TaskRecord /\ task[t].copy \in CampaignRow /\ task[t].ok \in BOOLEAN
  BY <1>1, AtTally DEF TaskRecord
<1>4. PICK r \in CampaignRow :
        /\ r = new /\ r.status = task[t].copy.status
        /\ r.sent = task[t].copy.sent + (IF task[t].ok THEN 1 ELSE 0)
        /\ r.failed = task[t].copy.failed + (IF task[t].ok THEN 0 ELSE 1)
  BY <1>3, CountedRow
<1> HIDE DEF new
<1>5. /\ a \in TaskRecord /\ a.at = "sending" /\ a.of = o /\ a.list = task[t].list
      /\ a.owns = task[t].owns /\ a.ownsRows = task[t].ownsRows
  BY <1>2, <1>3 DEF TaskRecord
<1> HIDE DEF a
<1>6. /\ b \in TaskRecord /\ b.at = "sending" /\ b.of = o /\ b.list = task[t].list
      /\ b.owns = task[t].owns /\ b.ownsRows = task[t].ownsRows /\ b.copy = r
  BY <1>4, <1>5 DEF TaskRecord
<1> HIDE DEF b
<1>7. /\ rec \in TaskRecord /\ rec.at = "sending" /\ rec.of = o /\ rec.list = task[t].list
      /\ rec.owns = task[t].owns /\ rec.ownsRows = task[t].ownsRows /\ rec.copy = r
  BY <1>6 DEF TaskRecord
<1> HIDE DEF rec
<1>8. PICK x \in TaskRecord :
        /\ task' = [task EXCEPT ![t] = x] /\ x.at = "sending" /\ x.of = o
        /\ x.list = task[t].list /\ x.owns = task[t].owns /\ x.ownsRows = task[t].ownsRows
        /\ x.copy = r
  BY <1>1, <1>7
<1>9. \A c \in Campaigns \ {o} : campaign'[c] = campaign[c] /\ recipient'[c] = recipient[c]
  <2>1. \A c \in Campaigns \ {o} : campaign'[c] = campaign[c]
    BY <1>1, <1>2, <1>4, SavedRow DEF TallyInv
  <2>2. \A c \in Campaigns \ {o} : recipient'[c] = recipient[c]
    BY <1>2 DEF ExecuteRecord, TallyInv, CampaignInv, CampaignTypeOK
  <2>3. QED BY <2>1, <2>2
<1>10. ASSUME o \notin raced'
       PROVE  /\ Kept(x)' /\ campaign'[o].status # "COMPLETED"
              /\ Untouched(o)' => Clean(o)'
              /\ Adds(o)'
  <2>1. /\ Kept(task[t]) /\ campaign[o].status # "COMPLETED" /\ ~Executable(campaign[o].status)
        /\ campaign[o] # NoRow
    BY <1>1, <1>2, <1>10, AtTally, RowIsNot DEF Sound
  <2>2. CASE task[t].owns
    <3>1. PICK cur \in Contacts :
            /\ cur = task[t].current /\ cur \notin task[t].list /\ recipient[o][cur] = "PENDING"
            /\ \A l \in task[t].list : recipient[o][l] = "PENDING"
            /\ \A l \in Contacts : recipient[o][l] = "PENDING" =>
                 l \in task[t].list \/ contact[l] = "gone" \/ l = cur
            /\ task[t].copy = campaign[o] /\ Counts(o) /\ task[t].ownsRows
      BY <1>1, <1>2, <2>1, <2>2 DEF Kept
    <3>2. campaign'[o] = r
      BY <1>1, <1>2, <1>4, <2>2, <3>1, SavedCopy DEF TallyInv
    <3>3. PICK s \in {"SENT", "FAILED"} : s = IF task[t].ok THEN "SENT" ELSE "FAILED"
      OBVIOUS
    <3>4. \A l \in Contacts : recipient'[o][l] = IF l = cur THEN s ELSE recipient[o][l]
      <4>1. recipient' = [recipient EXCEPT ![o][cur] = s]
        BY <1>2, <3>1, <3>3 DEF ExecuteRecord
      <4>2. QED BY <4>1 DEF TallyInv, CampaignInv, CampaignTypeOK
    <3>5. Of(o, s)' = Of(o, s) \cup {cur}
          /\ \A q \in {"SENT", "FAILED"} \ {s} : Of(o, q)' = Of(o, q)
      BY <3>1, <3>3, <3>4 DEF Of
    <3>6. Cardinality(Of(o, s)') = Cardinality(Of(o, s)) + 1
      BY <3>1, <3>3, <3>5, OneMore
    <3>7. Counts(o)'
      <4>1. campaign[o].sent \in Nat /\ campaign[o].failed \in Nat
        BY <1>1, <1>2, AtTally DEF CampaignRow
      <4>2. CASE task[t].ok
        <5>1. r.sent = campaign[o].sent + 1 /\ r.failed = campaign[o].failed
          BY <1>4, <3>1, <4>1, <4>2
        <5>2. Cardinality(Of(o, "SENT")') = Cardinality(Of(o, "SENT")) + 1
              /\ Of(o, "FAILED")' = Of(o, "FAILED")
          BY <3>3, <3>5, <3>6, <4>2
        <5>3. QED BY <3>1, <3>2, <5>1, <5>2 DEF Counts
      <4>3. CASE ~task[t].ok
        <5>1. r.sent = campaign[o].sent /\ r.failed = campaign[o].failed + 1
          BY <1>4, <3>1, <4>1, <4>3
        <5>2. Cardinality(Of(o, "FAILED")') = Cardinality(Of(o, "FAILED")) + 1
              /\ Of(o, "SENT")' = Of(o, "SENT")
          BY <3>3, <3>5, <3>6, <4>3
        <5>3. QED BY <3>1, <3>2, <5>1, <5>2 DEF Counts
      <4>4. QED BY <4>2, <4>3
    <3>8. x.list \subseteq Contacts
      BY DEF TaskRecord
    <3>9. /\ \A l \in x.list : recipient'[o][l] = "PENDING"
          /\ \A l \in Contacts : recipient'[o][l] = "PENDING" => l \in x.list \/ contact'[l] = "gone"
      BY <1>1, <1>8, <3>1, <3>3, <3>4, <3>8
    <3>10. Kept(x)'
      BY <1>8, <3>1, <3>2, <3>7, <3>9 DEF Kept
    <3>11. campaign'[o].status = campaign[o].status /\ campaign'[o] # NoRow
      BY <1>4, <3>1, <3>2, RowIsNot
    <3>12. QED BY <2>1, <3>10, <3>11 DEF Untouched, Adds
  <2>3. CASE ~task[t].owns
    <3>1. campaign'[o] = campaign[o]
      BY <1>1, <1>2, <1>4, <2>3, SavedRow DEF TallyInv
    <3>2. QED BY <1>8, <2>1, <2>3, <3>1 DEF Kept, Untouched, Adds
  <2>4. QED BY <2>2, <2>3
<1>11. CampaignInv' /\ raced \subseteq raced'
  BY <1>1, RecordStep DEF TallyInv
<1>12. Tallies(t, o, x)
  BY <1>1, <1>2, <1>8, <1>9, <1>10, <1>11 DEF Tallies
<1>13. QED BY <1>2, <1>8, <1>10, <1>11, <1>12, TalliesStep

LEMMA DoneTally == ASSUME TallyInv, NEW t \in Tasks, ExecuteDone(t) PROVE TallyInv'
<1> DEFINE new == [task[t].copy EXCEPT !.status = "COMPLETED"]
<1>1. Active(t) /\ task[t].at = "sending" /\ task[t].list = {} /\ SaveCampaign(t, new)
      /\ task' = [task EXCEPT ![t] = NoTask]
      /\ UNCHANGED <<recipient, contact, handed, raced, runs>>
  BY DEF ExecuteDone, Active, Update
<1>2. PICK o \in Campaigns : o = task[t].of
  BY <1>1, AtTally
<1>3. new \in CampaignRow /\ new.status = "COMPLETED"
      /\ new.sent = task[t].copy.sent /\ new.failed = task[t].copy.failed
  BY <1>1, AtTally DEF CampaignRow, CampaignStatus
<1>4. PICK r \in CampaignRow :
        /\ r.status = "COMPLETED" /\ SaveCampaign(t, r)
        /\ r.sent = task[t].copy.sent /\ r.failed = task[t].copy.failed
  BY <1>1, <1>3
<1> HIDE DEF new
<1>5. \A c \in Campaigns \ {o} : campaign'[c] = campaign[c]
  BY <1>1, <1>2, <1>4, SavedRow DEF TallyInv
<1>6. ASSUME o \notin raced' PROVE (Untouched(o)' => Clean(o)') /\ Adds(o)'
  <2>1. /\ Kept(task[t]) /\ campaign[o].status # "COMPLETED" /\ ~Executable(campaign[o].status)
        /\ campaign[o] # NoRow
    BY <1>1, <1>2, <1>6, AtTally, RowIsNot DEF Sound
  <2>2. CASE task[t].owns
    <3>1. /\ task[t].copy = campaign[o] /\ Counts(o)
          /\ \A k \in Contacts : recipient[o][k] = "PENDING" => contact[k] = "gone"
      BY <1>1, <1>2, <2>1, <2>2 DEF Kept
    <3>2. campaign'[o] = r
      BY <1>1, <1>2, <1>4, <2>2, <3>1, SavedCopy DEF TallyInv
    <3>3. Counts(o)'
      BY <1>1, <1>4, <3>1, <3>2, CountsKept
    <3>4. Adds(o)'
      BY <1>1, <3>1, <3>3 DEF Adds
    <3>5. QED BY <1>4, <3>2, <3>4, RowIsNot DEF Untouched, Executable
  <2>3. CASE ~task[t].owns
    <3>1. campaign'[o] = campaign[o]
      BY <1>1, <1>2, <1>4, <2>3, SavedRow DEF TallyInv
    <3>2. QED BY <2>1, <3>1 DEF Untouched, Adds
  <2>4. QED BY <2>2, <2>3
<1>7. CampaignInv' /\ raced \subseteq raced'
  BY <1>1, DoneStep DEF TallyInv
<1>8. PICK x \in TaskRecord : x = NoTask /\ x.at = "idle"
  BY NoTaskTyped
<1>9. QED BY <1>1, <1>2, <1>5, <1>6, <1>7, <1>8, TallyStep

LEMMA DiesTally == ASSUME TallyInv, NEW t \in Tasks, TaskDies(t) PROVE TallyInv'
<1>1. Active(t) /\ task' = [task EXCEPT ![t] = NoTask]
      /\ UNCHANGED <<campaign, recipient, contact, handed, raced, runs>>
  BY DEF TaskDies, Active, Update
<1>2. PICK o \in Campaigns : o = task[t].of
  BY <1>1, AtTally
<1>3. CampaignInv' /\ raced \subseteq raced'
  BY <1>1, DiesStep DEF TallyInv
<1>4. o \notin raced' => (Untouched(o)' => Clean(o)') /\ Adds(o)'
  BY <1>1, <1>3, RowsStay
<1>5. PICK x \in TaskRecord : x = NoTask /\ x.at = "idle"
  BY NoTaskTyped
<1>6. QED BY <1>1, <1>2, <1>3, <1>4, <1>5, TallyStep

LEMMA RequestEndsTally == ASSUME TallyInv, NEW t \in Tasks, RequestEnds(t) PROVE TallyInv'
<1> DEFINE a == [task[t] EXCEPT !.closed = TRUE]
           b == [a EXCEPT !.owns = FALSE]
           rec == [b EXCEPT !.ownsRows = FALSE]
<1>1. /\ Active(t) /\ task' = [task EXCEPT ![t] = rec]
      /\ UNCHANGED <<campaign, recipient, contact, handed, runs>> /\ raced \subseteq raced'
  BY DEF RequestEnds, Update, Active
<1>2. PICK o \in Campaigns : o = task[t].of
  BY <1>1, AtTally
<1>3. a \in TaskRecord /\ a.of = o
  BY <1>1, <1>2, AtTally DEF TaskRecord
<1> HIDE DEF a
<1>4. b \in TaskRecord /\ b.of = o /\ ~b.owns
  BY <1>3 DEF TaskRecord
<1> HIDE DEF b
<1>5. rec \in TaskRecord /\ rec.of = o /\ ~rec.owns
  BY <1>4 DEF TaskRecord
<1> HIDE DEF rec
<1>6. PICK x \in TaskRecord : task' = [task EXCEPT ![t] = x] /\ x.of = o /\ ~x.owns
  BY <1>1, <1>5
<1>7. CampaignInv'
  BY RequestEndsStep DEF TallyInv
<1>8. o \notin raced' => (Untouched(o)' => Clean(o)') /\ Adds(o)'
  BY <1>1, RowsStay
<1>9. o \notin raced' => Kept(x)' /\ campaign'[o].status # "COMPLETED"
  BY <1>1, <1>2, <1>6, AtTally DEF Kept
<1>10. QED BY <1>1, <1>2, <1>6, <1>7, <1>8, <1>9, TallyStep

LEMMA TallyNext == TallyInv /\ [CampaignNext]_campaignVars => TallyInv'
<1> SUFFICES ASSUME TallyInv, [CampaignNext]_campaignVars PROVE TallyInv'
  OBVIOUS
<1>1. ASSUME NEW c \in Campaigns, CreateCampaign(c) \/ PrepareAudience(c) PROVE TallyInv'
  BY <1>1, CreateTally, PrepareTally
<1>2. ASSUME NEW t \in Tasks, NEW c \in Campaigns, ExecuteTest(t, c) PROVE TallyInv'
  BY <1>2, TestTally
<1>3. ASSUME NEW k \in Contacts, NEW to \in {"unreachable", "gone"}, ContactChanges(k, to)
      PROVE  TallyInv'
  BY <1>3, ContactTally
<1>4. ASSUME NEW t \in Tasks,
             ExecuteMark(t) \/ ExecuteList(t) \/ ExecuteRecord(t) \/ ExecuteDone(t)
      PROVE  TallyInv'
  BY <1>4, MarkTally, ListTally, RecordTally, DoneTally
<1>5. ASSUME NEW t \in Tasks, RequestEnds(t) \/ TaskDies(t) PROVE TallyInv'
  BY <1>5, RequestEndsTally, DiesTally
<1>6. ASSUME NEW t \in Tasks, NEW k \in Contacts, ExecuteSend(t, k) PROVE TallyInv'
  BY <1>6, SendTally
<1>7. CASE UNCHANGED campaignVars
  <2>1. UNCHANGED <<campaign, recipient, contact, task, raced>>
    BY <1>7 DEF campaignVars
  <2>2. CampaignInv'
    BY <1>7, CampaignStep DEF TallyInv
  <2>3. TasksKeep'
    <3>1. \A x : Kept(x)' <=> Kept(x)
      BY <2>1, RecordKept
    <3>2. QED BY <2>1, <3>1 DEF TallyInv, TasksKeep
  <2>4. QED BY <2>1, <2>2, <2>3, RowsStay DEF TallyInv
<1>8. QED BY <1>1, <1>2, <1>3, <1>4, <1>5, <1>6, <1>7 DEF CampaignNext

-----------------------------------------------------------------------------
(* Theorems *)

\* The invariant holds in every behaviour of the campaigns.
THEOREM CampaignInvariant == CampaignSpec => []CampaignInv
BY CampaignInitial, CampaignStep, PTL DEF CampaignSpec

\* Rows, tasks and counters keep the types the code declares.
THEOREM CampaignTypes == CampaignSpec => []CampaignTypeOK
<1>1. CampaignInv => CampaignTypeOK
  BY DEF CampaignInv
<1>2. QED BY <1>1, CampaignInvariant, PTL

\* execute_campaign hands a recipient to the provider at most once, for any
\* number of campaigns, recipients, tasks, deaths and repeated executions,
\* unless the campaign raced.
THEOREM RecipientsOnce == CampaignSpec => []BlastOnce
<1>1. CampaignInv => BlastOnce
  BY DEF CampaignInv
<1>2. QED BY <1>1, CampaignInvariant, PTL

\* A campaign that execute_campaign declared COMPLETED has handled every
\* recipient whose customer is still there, and its counters are those of its
\* recipients, for any number of them, unless the campaign raced.
THEOREM CompletedCampaignsAddUp == CampaignSpec => []CompletedAddsUp
<1>1. TallyInv => CompletedAddsUp
  BY DEF TallyInv
<1>2. CampaignSpec => []TallyInv
  BY TallyInitial, TallyNext, PTL DEF CampaignSpec
<1>3. QED BY <1>1, <1>2, PTL

=============================================================================
