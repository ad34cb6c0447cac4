--------------------------- MODULE OperatorConsole ---------------------------
(***************************************************************************)
(* One tab of the operator console: the browser's history and the React    *)
(* state of the page that is shown, be it the task inbox, a workspace, an  *)
(* approval review, the timeline of a run or the technical evidence.       *)
(*                                                                         *)
(* The inbox keeps a copy of what its URL says and refreshes it when it    *)
(* mounts, on popstate and when its own controls rewrite the URL.  Links   *)
(* are soft navigations or load a document.  Either way a page that is     *)
(* reached from another one mounts, and a page that is left forgets its    *)
(* state.  Only the sidebar links from the inbox to the inbox leave it     *)
(* mounted: they push a URL, without a popstate.  Back and forward go one  *)
(* entry at a time.                                                        *)
(*                                                                         *)
(* The filters by view, status and type are treated alike; view stands for *)
(* them.  A row's keys work wherever the focus is in it, and each row has  *)
(* a link that Tab reaches.                                                *)
(***************************************************************************)
EXTENDS Integers, Sequences, FiniteSets

CONSTANTS Listed,     \* tasks in the inbox, numbers in the order the API lists them
          Due, Exposure, VIPs,
          Rank,       \* Rank[t]: the priority of the status of task t
          Texts,      \* texts the search box may be given
          Parsed,     \* Parsed[x]: text x trimmed, or "" if it is too long
          Matching,   \* Matching[x]: the tasks that contain the parsed text x
          RunTask,    \* the task whose run can be shown, and whose cases are evidence
          NoTask, NoState,
          MaxHistory  \* bound on the entries of the history

Views == {"all", "vip"}
Sorts == {"priority", "sla_asc", "exposure_desc"}
Outcomes == {"approved", "rejected", "needs_information"}
Reasons == {"empty", "blanks", "sufficient"}

(* What the mounted components keep. *)
InboxState == [query : {Parsed[x] : x \in Texts}, view : Views, sort : Sorts,
               task : Listed \cup {NoTask}]
Review == [status : {"pending", "stale"} \cup Outcomes, active : BOOLEAN,
           reason : Reasons, error : BOOLEAN]

ASSUME ConsoleAssumption ==
  /\ Listed \subseteq Nat /\ IsFiniteSet(Listed) /\ VIPs \subseteq Listed /\ NoTask \notin Listed
  /\ RunTask \in Listed
  /\ Due \in [Listed -> Nat] /\ Exposure \in [Listed -> Nat \cup {-1}]
  /\ Rank \in [Listed -> 0 .. 2]
  /\ "" \in Texts /\ Parsed \in [Texts -> Texts]
  /\ \A x \in Texts : Parsed[Parsed[x]] = Parsed[x]
  /\ Matching \in [Texts -> SUBSET Listed] /\ Matching[""] = Listed
  /\ NoState \notin InboxState \cup Review
  /\ MaxHistory \in Nat \ {0}

VARIABLES
  history,  \* the entries of the tab's history
  at,       \* the entry shown
  inbox,    \* the state of InteractiveTaskInbox, NoState when it is not mounted
  review,   \* the state of ApprovalReview, NoState when it is not mounted
  recovery, \* the request recorded by AgentRunTimeline
  source    \* ghost: the entry whose URL the page last read

vars == <<history, at, inbox, review, recovery, source>>

(* Entries: by is a ghost, how the entry came to be. *)
InboxAt(q, view, sort, task, by) ==
  [page |-> "inbox", q |-> q, view |-> view, sort |-> sort, task |-> task, by |-> by]
InboxEntry == [page : {"inbox"}, q : Texts, view : Views \cup {"unknown"}, sort : Sorts,
               task : Listed \cup {NoTask}, by : {"load", "link", "select"}]
WorkspaceEntry == [page : {"workspace"}, task : Listed]
ApprovalEntry == [page : {"approval"}, task : Listed,
                  scenario : {"active", "stale", "expired"}, versions : {"current", "old"}]
RunEntry == [page : {"run"}, task : Listed,
             scenario : {"unset", "completed", "failed", "uncertain"}]
EvidenceEntry == [page : {"evidence"}]

url == history[at]

(* parseTaskInboxState: every value is trimmed or falls back to its default.
   Fault: an unknown view is kept. *)
KeepUnknown(e) == [query |-> Parsed[e.q], view |-> e.view, sort |-> e.sort, task |-> e.task]
Parse(e) == [query |-> Parsed[e.q], view |-> IF e.view \in Views THEN e.view ELSE "all",
             sort |-> e.sort, task |-> e.task]

------------------------------------------------------------------------------
(* The rows of the inbox: selectTaskInboxRows, whose sort is stable. *)

Shown(s) == {t \in Listed : t \in Matching[s.query] /\ (s.view = "vip" => t \in VIPs)}

Key(s, t) == CASE s.sort = "sla_asc" -> <<Due[t], 0>>
               [] s.sort = "exposure_desc" -> <<-Exposure[t], 0>>
               [] s.sort = "priority" -> <<Rank[t], Due[t]>>

Before(s, t, u) == LET k == Key(s, t) \o <<t>>
                       l == Key(s, u) \o <<u>> IN
                   \E i \in 1 .. 3 : k[i] < l[i] /\ \A j \in 1 .. i - 1 : k[j] = l[j]

(* The number of the row t is in. *)
Place(s, t) == Cardinality({u \in Shown(s) : Before(s, u, t)}) + 1

------------------------------------------------------------------------------
(* The approval page.  Fault: the versions in the URL are not looked at. *)
ScenarioAlone(e) == e.scenario
ScenarioOf(e) == IF e.versions = "old" THEN "stale" ELSE e.scenario

NewReview(e) == [status |-> IF ScenarioOf(e) = "stale" THEN "stale" ELSE "pending",
                 active |-> ScenarioOf(e) # "expired", reason |-> "empty", error |-> FALSE]

Blocked == review.status # "pending" \/ ~review.active

(* The page of a run: a scenario that is not given is the completed one, and
   any task but one answers with the not-found page. *)
RunScenario(e) == IF e.scenario = "unset" THEN "completed" ELSE e.scenario
RunFound(e) == e.task = RunTask

Recoveries == {"none", "retry", "reconciliation"}

------------------------------------------------------------------------------
(* Arriving at an entry: its page mounts, or hears of the popstate.
   Fault: a mounted inbox does not. *)
Deaf(e) == IF inbox # NoState THEN inbox ELSE Parse(e)
Restored(e) == Parse(e)

(* A timeline starts without a request.  Fault: the links between its scenarios
   are soft navigations, and it keeps its state. *)
KeptOnRun(e) == IF e.page = "run" THEN recovery ELSE "none"
Recovering(e) == "none"

Arrive(e) == /\ inbox' = IF e.page = "inbox" THEN Restored(e) ELSE NoState
             /\ review' = IF e.page = "approval" THEN NewReview(e) ELSE NoState
             /\ recovery' = Recovering(e)
             /\ source' = at'

(* A new entry takes the place of those after the current one. *)
Push(e) == /\ at < MaxHistory
           /\ history' = Append(SubSeq(history, 1, at), e)
           /\ at' = at + 1

Init == /\ \E e \in WorkspaceEntry \cup ApprovalEntry \cup RunEntry
                     \cup EvidenceEntry \cup {i \in InboxEntry : i.by = "load"} :
             /\ history = <<e>>
             /\ inbox = IF e.page = "inbox" THEN Parse(e) ELSE NoState
             /\ review = IF e.page = "approval" THEN NewReview(e) ELSE NoState
        /\ at = 1
        /\ recovery = "none"
        /\ source = 1

(* Back, forward, or reload. *)
Traverse(i) == /\ i \in DOMAIN history /\ i \in at - 1 .. at + 1
               /\ at' = i
               /\ Arrive(history[i])
               /\ UNCHANGED history

(* updateState: the URL, as it is now, parsed and patched, and then parsed again. *)
Patched(query, view, sort, task, by) == InboxAt(query, view, sort, task, by)

Replace(query, view, sort) ==
  LET e == Patched(query, view, sort, Parse(url).task, url.by) IN
  /\ history' = [history EXCEPT ![at] = e]
  /\ inbox' = Parse(e)
  /\ source' = at
  /\ UNCHANGED <<at, review, recovery>>

OnInbox == url.page = "inbox"

Search(x) == /\ OnInbox /\ x # inbox.query
             /\ Replace(x, Parse(url).view, Parse(url).sort)
FilterView(view) == /\ OnInbox /\ view # inbox.view
                    /\ Replace(Parse(url).query, view, Parse(url).sort)
Sort(sort) == /\ OnInbox /\ sort # inbox.sort
              /\ Replace(Parse(url).query, Parse(url).view, sort)

(* The buttons are there when a filter is set, or no row is left. *)
Clearable == inbox.query # "" \/ inbox.view # "all" \/ Shown(inbox) = {}

ClearFilters == /\ OnInbox /\ Clearable
                /\ Replace("", "all", Parse(url).sort)

(* A row is selected by keys.  Fault: one that is selected is selected again. *)
AnyRow(t) == TRUE
Selectable(t) == t # inbox.task

Select(t) ==
  LET s == Parse(url)
      e == Patched(s.query, s.view, s.sort, t, "select") IN
  /\ Selectable(t)
  /\ Push(e)
  /\ inbox' = Parse(e)
  /\ source' = at'
  /\ UNCHANGED <<review, recovery>>

(* Arrow keys in the row of t, clamped to the list, and the space bar. *)
Clamp(i, n) == IF i < 1 THEN 1 ELSE IF i > n THEN n ELSE i

PressKey(t, step) ==
  /\ OnInbox /\ t \in Shown(inbox)
  /\ \E u \in Shown(inbox) :
       /\ Place(inbox, u) = Clamp(Place(inbox, t) + step, Cardinality(Shown(inbox)))
       /\ Select(u)

(* A link to another page, or to another document. *)
Visit(e) == Push(e) /\ Arrive(e)

(* A click on a row, its link, or Enter.  Every listed task has a workspace. *)
OpenTask(t) == /\ OnInbox /\ t \in Shown(inbox)
               /\ Visit([page |-> "workspace", task |-> t])

BackToInbox == /\ url.page = "workspace"
               /\ Visit(InboxAt("", "all", "priority", url.task, "load"))

ReviewApproval == /\ url.page = "workspace"
                  /\ Visit([page |-> "approval", task |-> url.task,
                           scenario |-> "active", versions |-> "current"])

LeaveApproval == /\ url.page = "approval"
                 /\ Visit([page |-> "workspace", task |-> url.task])

OpenTimeline == /\ url.page = "workspace"
                /\ Visit([page |-> "run", task |-> url.task, scenario |-> "unset"])

LeaveTimeline == /\ url.page = "run" /\ RunFound(url)
                 /\ Visit([page |-> "workspace", task |-> url.task])

(* The links between the scenarios of a run. *)
ShowScenario(scenario) == /\ url.page = "run" /\ RunFound(url)
                          /\ scenario # url.scenario
                          /\ Visit([url EXCEPT !.scenario = scenario])

(* The technical evidence, from the sidebar, and the cases it links to. *)
SeeEvidence == /\ url.page # "evidence"
               /\ Visit([page |-> "evidence"])

Cases ==
  {e \in RunEntry : e.task = RunTask /\ e.scenario # "completed"}
    \cup {e \in ApprovalEntry : /\ e.task = RunTask /\ e.versions = "current"
                                /\ e.scenario \in {"stale", "expired"}}

OpenCase(e) == /\ url.page = "evidence" /\ e \in Cases
               /\ Visit(e)

(* A link of the sidebar: to the inbox or one of its saved views.  The link on
   the not-found page is one of them. *)
FollowSidebar(view) ==
  LET e == InboxAt("", view, "priority", NoTask, "link") IN
  IF OnInbox
  THEN /\ [url EXCEPT !.by = "link"] # e
       /\ Push(e)
       /\ UNCHANGED <<inbox, review, recovery, source>>
  ELSE Visit(e)

------------------------------------------------------------------------------
(* The review and the recovery of a run. *)

Reviewing == url.page = "approval" /\ ~Blocked

GiveReason(reason) == /\ Reviewing
                      /\ review' = [review EXCEPT !.reason = reason]
                      /\ UNCHANGED <<history, at, inbox, recovery, source>>

(* The reason is measured without the blanks around it. *)
LongEnough(reason) == reason = "sufficient"

(* submitMockApprovalDecision, for a review that is pending and active. *)
Submitted(outcome) == IF LongEnough(review.reason)
                      THEN [review EXCEPT !.status = outcome, !.error = FALSE]
                      ELSE [review EXCEPT !.error = TRUE]

Decide(outcome) ==
  /\ Reviewing
  /\ review' = Submitted(outcome)
  /\ UNCHANGED <<history, at, inbox, recovery, source>>

(* The button is there for a run that was not completed. *)
RecoveryOf(scenario) == IF scenario = "failed" THEN "retry" ELSE "reconciliation"

StartRecovery == /\ url.page = "run" /\ RunFound(url) /\ RunScenario(url) # "completed"
                 /\ recovery' = RecoveryOf(RunScenario(url))
                 /\ UNCHANGED <<history, at, inbox, review, source>>

Next == \/ \E i \in 1 .. MaxHistory : Traverse(i)
        \/ \E x \in Texts : Search(x)
        \/ \E view \in Views : FilterView(view) \/ FollowSidebar(view)
        \/ \E sort \in Sorts : Sort(sort)
        \/ ClearFilters
        \/ \E t \in Listed, step \in -1 .. 1 : PressKey(t, step)
        \/ \E t \in Listed : OpenTask(t)
        \/ BackToInbox \/ ReviewApproval \/ LeaveApproval
        \/ OpenTimeline \/ LeaveTimeline \/ SeeEvidence \/ StartRecovery
        \/ \E scenario \in {"completed", "failed", "uncertain"} : ShowScenario(scenario)
        \/ \E e \in Cases : OpenCase(e)
        \/ \E reason \in Reasons : GiveReason(reason)
        \/ \E outcome \in Outcomes : Decide(outcome)

Spec == Init /\ [][Next]_vars

------------------------------------------------------------------------------
(* Properties. *)

(* Every variable has its type; the inbox never works with a value that is not
   one of its own, whatever URL it was loaded from. *)
TypeOK ==
  /\ history \in Seq(InboxEntry \cup WorkspaceEntry \cup ApprovalEntry \cup RunEntry
                    \cup EvidenceEntry)
  /\ at \in DOMAIN history /\ Len(history) <= MaxHistory
  /\ inbox = NoState <=> ~OnInbox
  /\ OnInbox => inbox \in InboxState
  /\ review = NoState <=> url.page # "approval"
  /\ url.page = "approval" => review \in Review
  /\ recovery \in Recoveries /\ (recovery # "none" => url.page = "run")
  /\ source \in 1 .. at

(* "URL owns filters, sorting, pagination, and shareable navigation state." (ADR-002);
   "URL-owned query, filter, view, sort, and selected-task state" (sprint 3).  What the
   inbox shows is what its URL says. *)
UrlOwnsInbox == OnInbox => inbox = Parse(url)

(* UrlOwnsInbox does not hold; this is how far it fails.  What the inbox shows is
   always the state of one URL as a whole, the last it read; and between that entry and
   the current one lie sidebar links only, so that a filter, a selection, back,
   forward or a reload brings the two together again, from any history. *)
OnlySidebarLinksDiverge ==
  OnInbox => /\ inbox = Parse(history[source])
             /\ \A i \in source + 1 .. at : history[i].by = "link"

(* Each selection is a step of its own in the history: going back from one never
   lands on the same selection, whatever filters were changed and whatever the
   keys did at the ends of the list. *)
SelectionsAreSteps ==
  \A i \in DOMAIN history : history[i].page = "inbox" /\ history[i].by = "select" =>
    i > 1 /\ history[i - 1].task # history[i].task

(* What an operator records holds of what is shown beside it, whatever was shown
   and tried before.  A decision: on a review of the current versions whose
   reservation holds, with a reason that is more than blanks.  A recovery request:
   the one the run's scenario allows ("Uncertain execution requires reconciliation;
   retry is allowed only after confirmed no-side-effect failure",
   technical-evidence.tsx). *)
ActionsAreSound ==
  /\ url.page = "approval" /\ review.status \in Outcomes =>
       /\ url.versions = "current" /\ url.scenario = "active"
       /\ review.reason = "sufficient" /\ ~review.error
  /\ recovery # "none" =>
       /\ RunScenario(url) # "completed"
       /\ recovery = "retry" <=> RunScenario(url) = "failed"
==============================================================================
