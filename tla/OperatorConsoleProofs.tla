------------------------- MODULE OperatorConsoleProofs -------------------------
(***************************************************************************)
(* Proofs about OperatorConsole for any tasks, texts and length of the     *)
(* history.  The properties are inductive once three facts are added: the  *)
(* entries links push within the inbox select no task; what a review says  *)
(* of its versions and its reservation is what its URL says; and the entry *)
(* the page has read is still in the history.                              *)
(***************************************************************************)
EXTENDS OperatorConsole, SequenceTheorems, TLAPS

Entries == InboxEntry \cup WorkspaceEntry \cup ApprovalEntry \cup RunEntry \cup EvidenceEntry

(* The history, and the entry the page has read. *)
HistoryTypes == /\ history \in Seq(Entries)
                /\ at \in 1 .. Len(history) /\ Len(history) <= MaxHistory
                /\ source \in 1 .. at

(* A component is mounted on its page only, with a state of its own. *)
PageIsMounted == /\ IF url.page = "inbox" THEN inbox \in InboxState ELSE inbox = NoState
                 /\ IF url.page = "approval" THEN review \in Review ELSE review = NoState
                 /\ recovery \in Recoveries /\ (recovery # "none" => url.page = "run")

(* A link to the inbox selects nothing. *)
LinksSelectNothing ==
  \A i \in DOMAIN history :
    history[i].page = "inbox" /\ history[i].by = "link" => history[i].task = NoTask

(* A review knows whether its URL is out of date. *)
ReviewIsOfUrl ==
  url.page = "approval" =>
    /\ review.status = "stale" <=> ScenarioOf(url) = "stale"
    /\ review.active <=> ScenarioOf(url) # "expired"

IInv == /\ HistoryTypes /\ PageIsMounted /\ LinksSelectNothing /\ ReviewIsOfUrl
        /\ OnlySidebarLinksDiverge /\ SelectionsAreSteps /\ ActionsAreSound

------------------------------------------------------------------------------
(* Entries and what is made of them. *)

(* The page of an entry says which entry it is. *)
LEMMA EntryKinds ==
  ASSUME NEW e \in Entries
  PROVE  /\ e.page = "inbox" <=> e \in InboxEntry
         /\ e.page = "workspace" <=> e \in WorkspaceEntry
         /\ e.page = "approval" <=> e \in ApprovalEntry
         /\ e.page = "run" <=> e \in RunEntry
BY DEF Entries, InboxEntry, WorkspaceEntry, ApprovalEntry, RunEntry, EvidenceEntry

(* Whatever its URL, the inbox works with values of its own, and with the task of the URL. *)
LEMMA ParsedIsOwn ==
  ASSUME NEW e \in InboxEntry
  PROVE  /\ Parse(e) \in InboxState /\ Parse(e) # NoState
         /\ Parse(e).query \in Texts /\ Parse(e).view \in Views /\ Parse(e).sort \in Sorts
         /\ Parse(e).task = e.task /\ e.task \in Listed \cup {NoTask}
         /\ e.by \in {"load", "link", "select"}
<1>1. /\ e.q \in Texts /\ e.sort \in Sorts /\ e.task \in Listed \cup {NoTask}
      /\ e.by \in {"load", "link", "select"}
  BY DEF InboxEntry
<1>2. Parsed[e.q] \in {Parsed[x] : x \in Texts} /\ Parsed[e.q] \in Texts
  BY <1>1, ConsoleAssumption
<1>3. (IF e.view \in Views THEN e.view ELSE "all") \in Views
  BY DEF Views
<1>4. /\ Parse(e) \in InboxState
      /\ Parse(e).query = Parsed[e.q] /\ Parse(e).view \in Views
      /\ Parse(e).sort = e.sort /\ Parse(e).task = e.task
  BY <1>1, <1>2, <1>3 DEF Parse, InboxState
<1>5. Parse(e) # NoState
  BY <1>4, ConsoleAssumption
<1> QED BY <1>1, <1>2, <1>4, <1>5

(* A URL the inbox writes is one of its entries. *)
LEMMA PatchedIsEntry ==
  ASSUME NEW q \in Texts, NEW view \in Views, NEW sort \in Sorts,
         NEW task \in Listed \cup {NoTask}, NEW by \in {"load", "link", "select"},
         NEW e, e = InboxAt(q, view, sort, task, by)
  PROVE  e \in InboxEntry /\ e.task = task /\ e.by = by /\ e.page = "inbox"
BY DEF InboxAt, InboxEntry

(* A review that is opened is of its URL, and nothing has been decided. *)
LEMMA NewReviewIsOfUrl ==
  ASSUME NEW e \in ApprovalEntry
  PROVE  /\ NewReview(e) \in Review /\ NewReview(e) # NoState
         /\ NewReview(e).status \notin Outcomes
         /\ NewReview(e).status = "stale" <=> ScenarioOf(e) = "stale"
         /\ NewReview(e).active <=> ScenarioOf(e) # "expired"
<1>1. NewReview(e) \in Review
  BY DEF NewReview, Review, Reasons
<1>2. NewReview(e) # NoState
  BY <1>1, ConsoleAssumption
<1> QED BY <1>1, <1>2 DEF NewReview, Outcomes

------------------------------------------------------------------------------
(* The history. *)

(* Where the tab is. *)
LEMMA WhereItIs ==
  ASSUME HistoryTypes
  PROVE  /\ history \in Seq(Entries) /\ Len(history) \in Nat /\ Len(history) <= MaxHistory
         /\ DOMAIN history = 1 .. Len(history) /\ \A i \in 1 .. Len(history) : history[i] \in Entries
         /\ at \in 1 .. Len(history) /\ at \in Nat /\ url \in Entries
         /\ source \in 1 .. at /\ source \in 1 .. Len(history) /\ source \in Nat
         /\ MaxHistory \in Nat
<1>1. /\ history \in Seq(Entries) /\ at \in 1 .. Len(history) /\ Len(history) <= MaxHistory
      /\ source \in 1 .. at
  BY DEF HistoryTypes
<1>2. /\ Len(history) \in Nat /\ DOMAIN history = 1 .. Len(history)
      /\ \A i \in 1 .. Len(history) : history[i] \in Entries
  BY <1>1, LenProperties
<1>3. MaxHistory \in Nat
  BY ConsoleAssumption
<1>4. at \in Nat /\ source \in Nat /\ source \in 1 .. Len(history)
  BY <1>1, <1>2
<1> QED BY <1>1, <1>2, <1>3, <1>4 DEF url

(* What Push makes of the history. *)
LEMMA PushedEntries ==
  ASSUME HistoryTypes, NEW e \in Entries, Push(e)
  PROVE  /\ history' \in Seq(Entries) /\ Len(history') = at + 1 /\ at' = at + 1
         /\ at \in Nat /\ at' \in 1 .. Len(history') /\ Len(history') <= MaxHistory
         /\ history'[at'] = e /\ \A i \in 1 .. at : history'[i] = history[i]
         /\ DOMAIN history' = 1 .. at + 1 /\ DOMAIN history = 1 .. Len(history)
<1> DEFINE kept == SubSeq(history, 1, at)
<1>1. /\ history \in Seq(Entries) /\ at \in 1 .. Len(history) /\ Len(history) \in Nat
      /\ at \in Nat /\ DOMAIN history = 1 .. Len(history) /\ MaxHistory \in Nat
      /\ history' = Append(kept, e) /\ at' = at + 1 /\ at < MaxHistory
  BY WhereItIs DEF Push
<1>2. kept \in Seq(Entries) /\ Len(kept) = at /\ \A i \in 1 .. at : kept[i] = history[i]
  <2>1. \A i \in 1 .. at : history[i] \in Entries
    BY <1>1, LenProperties
  <2>2. /\ kept \in Seq(Entries) /\ Len(kept) = (IF 1 <= at THEN at - 1 + 1 ELSE 0)
        /\ \A i \in 1 .. at - 1 + 1 : kept[i] = history[1 + i - 1]
    BY <1>1, <2>1, SubSeqProperties
  <2> HIDE DEF kept
  <2>3. Len(kept) = at
    BY <1>1, <2>2
  <2>4. \A i \in 1 .. at : kept[i] = history[i]
    BY <1>1, <2>2
  <2> QED BY <2>2, <2>3, <2>4
<1> HIDE DEF kept
<1>3. /\ history' \in Seq(Entries) /\ Len(history') = at + 1
      /\ \A i \in 1 .. at : history'[i] = kept[i]
      /\ history'[at + 1] = e
  BY <1>1, <1>2, AppendProperties
<1>4. DOMAIN history' = 1 .. at + 1
  BY <1>3, LenProperties
<1>5. at' \in 1 .. Len(history') /\ Len(history') <= MaxHistory
  BY <1>1, <1>3
<1> QED BY <1>1, <1>2, <1>3, <1>4, <1>5

(* A link that is pushed selects nothing, and what is selected was not before. *)
LEMMA PushKeepsSteps ==
  ASSUME HistoryTypes, LinksSelectNothing, SelectionsAreSteps, NEW e \in Entries, Push(e),
         e.page = "inbox" /\ e.by = "link" => e.task = NoTask,
         e.page = "inbox" /\ e.by = "select" => url.task # e.task
  PROVE  LinksSelectNothing' /\ SelectionsAreSteps'
<1>1. /\ at \in Nat /\ at' = at + 1 /\ history'[at + 1] = e
      /\ \A i \in 1 .. at : history'[i] = history[i]
      /\ DOMAIN history' = 1 .. at + 1 /\ DOMAIN history = 1 .. Len(history)
      /\ at \in 1 .. Len(history) /\ Len(history) \in Nat
  BY PushedEntries, LenProperties DEF HistoryTypes
<1>2. ASSUME NEW i \in 1 .. at + 1, history'[i].page = "inbox", history'[i].by = "link"
      PROVE  history'[i].task = NoTask
  <2>1. CASE i = at + 1
    BY <1>1, <1>2, <2>1
  <2>2. CASE i # at + 1
    <3>1. i \in 1 .. at /\ i \in DOMAIN history
      BY <1>1, <2>2
    <3>2. history'[i] = history[i]
      BY <1>1, <3>1
    <3> QED BY <1>2, <3>1, <3>2 DEF LinksSelectNothing
  <2> QED BY <2>1, <2>2
<1>3. ASSUME NEW i \in 1 .. at + 1, history'[i].page = "inbox", history'[i].by = "select"
      PROVE  i > 1 /\ history'[i - 1].task # history'[i].task
  <2>1. CASE i = at + 1
    <3>1. i - 1 = at /\ i > 1
      BY <1>1, <2>1
    <3>2. history'[at] = url
      BY <1>1 DEF url
    <3> QED BY <1>1, <1>3, <2>1, <3>1, <3>2
  <2>2. CASE i # at + 1
    <3>1. i \in 1 .. at /\ i \in DOMAIN history
      BY <1>1, <2>2
    <3>2. history'[i] = history[i]
      BY <1>1, <3>1
    <3>3. i > 1 /\ history[i - 1].task # history[i].task
      BY <1>3, <3>1, <3>2 DEF SelectionsAreSteps
    <3>4. i - 1 \in 1 .. at
      BY <1>1, <3>1, <3>3
    <3>5. history'[i - 1] = history[i - 1]
      BY <1>1, <3>4
    <3> QED BY <3>2, <3>3, <3>5
  <2> QED BY <2>1, <2>2
<1>4. LinksSelectNothing'
  BY <1>1, <1>2 DEF LinksSelectNothing
<1>5. SelectionsAreSteps'
  BY <1>1, <1>3 DEF SelectionsAreSteps
<1> QED BY <1>4, <1>5

------------------------------------------------------------------------------
(* The pages. *)

(* A page that mounts shows its URL, and nothing has been done on it yet. *)
LEMMA Arrival ==
  ASSUME NEW e \in Entries, at' \in Nat, history'[at'] = e, Arrive(e)
  PROVE  /\ PageIsMounted' /\ ReviewIsOfUrl' /\ OnlySidebarLinksDiverge'
         /\ ActionsAreSound' /\ source' = at'
<1>1. url' = e /\ source' = at' /\ recovery' = "none"
  BY DEF url, Arrive, Recovering
<1>2. /\ inbox' = IF e.page = "inbox" THEN Parse(e) ELSE NoState
      /\ review' = IF e.page = "approval" THEN NewReview(e) ELSE NoState
  BY DEF Arrive, Restored
<1>3. PageIsMounted'
  BY <1>1, <1>2, EntryKinds, ParsedIsOwn, NewReviewIsOfUrl DEF PageIsMounted, Recoveries
<1>4. ReviewIsOfUrl'
  <2> SUFFICES ASSUME e.page = "approval"
               PROVE  /\ review'.status = "stale" <=> ScenarioOf(e) = "stale"
                      /\ review'.active <=> ScenarioOf(e) # "expired"
    BY <1>1 DEF ReviewIsOfUrl, ScenarioOf
  <2> QED BY <1>2, EntryKinds, NewReviewIsOfUrl
<1>5. OnlySidebarLinksDiverge'
  <2>1. OnInbox' => inbox' = Parse(e)
    BY <1>1, <1>2 DEF OnInbox
  <2>2. \A n \in Nat : \A i \in n + 1 .. n : FALSE
    OBVIOUS
  <2>3. \A i \in source' + 1 .. at' : FALSE
    BY <1>1, <2>2
  <2> QED BY <1>1, <2>1, <2>3 DEF OnlySidebarLinksDiverge, Parse
<1>6. ActionsAreSound'
  <2>1. e.page = "approval" => review'.status \notin Outcomes
    BY <1>2, EntryKinds, NewReviewIsOfUrl
  <2> QED BY <1>1, <2>1 DEF ActionsAreSound
<1> QED BY <1>1, <1>3, <1>4, <1>5, <1>6

(* A link to another page, or to another document. *)
LEMMA VisitIInv ==
  ASSUME IInv, NEW e \in Entries, Visit(e),
         e.page = "inbox" => e.by # "select" /\ (e.by = "link" => e.task = NoTask)
  PROVE  IInv'
<1>1. /\ history' \in Seq(Entries) /\ at' \in 1 .. Len(history') /\ Len(history') <= MaxHistory
      /\ history'[at'] = e /\ at' \in Nat
  <2>1. HistoryTypes /\ Push(e)
    BY DEF IInv, Visit
  <2> QED BY <2>1, PushedEntries
<1>2. LinksSelectNothing' /\ SelectionsAreSteps'
  BY PushKeepsSteps DEF IInv, Visit
<1>3. /\ PageIsMounted' /\ ReviewIsOfUrl' /\ OnlySidebarLinksDiverge' /\ ActionsAreSound'
      /\ source' = at'
  BY <1>1, Arrival DEF Visit
<1>4. HistoryTypes'
  BY <1>1, <1>3 DEF HistoryTypes
<1> QED BY <1>2, <1>3, <1>4 DEF IInv

(* Back, forward and reload. *)
LEMMA TraverseIInv ==
  ASSUME IInv, NEW i, Traverse(i)
  PROVE  IInv'
<1>1. /\ history' = history /\ at' = i /\ i \in 1 .. Len(history) /\ i \in Nat
      /\ history[i] \in Entries
  BY WhereItIs DEF IInv, Traverse
<1>2. /\ PageIsMounted' /\ ReviewIsOfUrl' /\ OnlySidebarLinksDiverge' /\ ActionsAreSound'
      /\ source' = at'
  <2>1. PICK e \in Entries : e = history[i]
    BY <1>1
  <2>2. history'[at'] = e /\ Arrive(e) /\ at' \in Nat
    BY <1>1, <2>1 DEF Traverse
  <2> QED BY <2>2, Arrival
<1>3. HistoryTypes'
  BY <1>1, <1>2 DEF IInv, HistoryTypes
<1>4. LinksSelectNothing' /\ SelectionsAreSteps'
  BY <1>1 DEF IInv, LinksSelectNothing, SelectionsAreSteps
<1> QED BY <1>2, <1>3, <1>4 DEF IInv

------------------------------------------------------------------------------
(* The inbox. *)

(* What a page that shows the inbox keeps of the others. *)
LEMMA InboxAlone ==
  ASSUME IInv, OnInbox, UNCHANGED <<review, recovery>>, url'.page = "inbox", inbox' \in InboxState
  PROVE  PageIsMounted' /\ ReviewIsOfUrl' /\ ActionsAreSound'
BY DEF IInv, OnInbox, PageIsMounted, ReviewIsOfUrl, ActionsAreSound, Recoveries

(* The controls rewrite the URL of the entry that is shown, not what it has selected. *)
LEMMA ReplaceIInv ==
  ASSUME IInv, OnInbox, NEW q \in Texts, NEW view \in Views, NEW sort \in Sorts,
         Replace(q, view, sort)
  PROVE  IInv'
<1>1. PICK u \in InboxEntry : u = url
  BY WhereItIs, EntryKinds DEF IInv, OnInbox
<1>2. PICK e : e = InboxAt(q, view, sort, u.task, u.by)
  OBVIOUS
<1>3. e \in InboxEntry /\ e.task = u.task /\ e.by = u.by /\ e.page = "inbox"
  BY <1>2, ParsedIsOwn, PatchedIsEntry
<1>4. /\ history' = [history EXCEPT ![at] = e] /\ inbox' = Parse(e) /\ source' = at
      /\ at' = at /\ UNCHANGED <<review, recovery>>
  BY <1>1, <1>2, ParsedIsOwn DEF Replace, Patched
<1>5. /\ history \in Seq(Entries) /\ Len(history) \in Nat /\ at \in 1 .. Len(history)
      /\ at \in Nat /\ DOMAIN history = 1 .. Len(history) /\ Len(history) <= MaxHistory
  BY WhereItIs DEF IInv
<1>6. /\ history' \in Seq(Entries) /\ Len(history') = Len(history)
      /\ DOMAIN history' = DOMAIN history
      /\ \A i \in DOMAIN history : history'[i] = IF i = at THEN e ELSE history[i]
  BY <1>3, <1>4, <1>5, ExceptSeq, LenProperties DEF Entries
<1>7. url' = e /\ url = history[at]
  BY <1>4, <1>5, <1>6 DEF url
<1>8. \A i \in DOMAIN history : /\ history'[i].task = history[i].task
                                /\ history'[i].by = history[i].by
                                /\ history'[i].page = history[i].page
  BY <1>1, <1>3, <1>6, <1>7 DEF OnInbox
<1>9. HistoryTypes'
  BY <1>4, <1>5, <1>6 DEF HistoryTypes
<1>10. PageIsMounted' /\ ReviewIsOfUrl' /\ ActionsAreSound'
  BY <1>3, <1>4, <1>7, ParsedIsOwn, InboxAlone
<1>11. LinksSelectNothing'
  BY <1>6, <1>8 DEF IInv, LinksSelectNothing
<1>12. SelectionsAreSteps'
  <2> SUFFICES ASSUME NEW i \in DOMAIN history, history'[i].page = "inbox", history'[i].by = "select"
               PROVE  i > 1 /\ history'[i - 1].task # history'[i].task
    BY <1>6 DEF SelectionsAreSteps
  <2>1. i > 1 /\ history[i - 1].task # history[i].task
    BY <1>8 DEF IInv, SelectionsAreSteps
  <2>2. i - 1 \in DOMAIN history
    BY <1>5, <2>1
  <2> QED BY <1>8, <2>1, <2>2
<1>13. OnlySidebarLinksDiverge'
  <2>1. inbox' = Parse(e) /\ history'[source'] = e
    BY <1>4, <1>5, <1>6
  <2>2. \A i \in source' + 1 .. at' : FALSE
    BY <1>4, <1>5
  <2> QED BY <2>1, <2>2 DEF OnlySidebarLinksDiverge, Parse
<1> QED BY <1>9, <1>10, <1>11, <1>12, <1>13 DEF IInv

(* A row is selected. *)
LEMMA SelectIInv ==
  ASSUME IInv, OnInbox, NEW t \in Listed, Select(t)
  PROVE  IInv'
<1>1. PICK u \in InboxEntry : u = url
  BY WhereItIs, EntryKinds DEF IInv, OnInbox
<1>2. PICK s : s = Parse(u)
  OBVIOUS
<1>3. s.query \in Texts /\ s.view \in Views /\ s.sort \in Sorts
  BY <1>2, ParsedIsOwn
<1>4. PICK e : e = InboxAt(s.query, s.view, s.sort, t, "select")
  OBVIOUS
<1>5. e \in InboxEntry /\ e \in Entries /\ e.task = t /\ e.by = "select" /\ e.page = "inbox"
  BY <1>3, <1>4, PatchedIsEntry DEF Entries
<1>6. /\ Push(e) /\ inbox' = Parse(e) /\ source' = at' /\ UNCHANGED <<review, recovery>>
      /\ t # inbox.task
  BY <1>1, <1>2, <1>4 DEF Select, Selectable, Patched
<1>7. HistoryTypes /\ LinksSelectNothing /\ SelectionsAreSteps /\ OnlySidebarLinksDiverge
  BY DEF IInv
<1>8. u.task # t
  <2>1. /\ inbox = Parse(history[source])
        /\ \A i \in source + 1 .. at : history[i].by = "link"
    BY <1>7 DEF OnlySidebarLinksDiverge
  <2>2. /\ at \in 1 .. Len(history) /\ at \in Nat /\ source \in Nat /\ source \in 1 .. at
        /\ DOMAIN history = 1 .. Len(history)
    BY <1>7, WhereItIs
  <2>3. CASE source = at
    BY <1>1, <1>6, <2>1, <2>3, ParsedIsOwn DEF url
  <2>4. CASE source # at
    <3>1. at \in source + 1 .. at
      BY <2>2, <2>4
    <3>2. u.by = "link" /\ u.page = "inbox"
      BY <1>1, <2>1, <3>1 DEF url, OnInbox
    <3>3. u.task = NoTask
      BY <1>1, <1>7, <2>2, <3>2 DEF LinksSelectNothing, url
    <3> QED BY <3>3, ConsoleAssumption
  <2> QED BY <2>3, <2>4
<1>9. /\ history' \in Seq(Entries) /\ at' \in 1 .. Len(history') /\ Len(history') <= MaxHistory
      /\ history'[at'] = e /\ at' \in Nat
  <2>1. at' = at + 1 /\ at \in Nat
    BY <1>5, <1>6, <1>7, PushedEntries
  <2> QED BY <1>5, <1>6, <1>7, <2>1, PushedEntries
<1>10. LinksSelectNothing' /\ SelectionsAreSteps'
  BY <1>1, <1>5, <1>6, <1>7, <1>8, PushKeepsSteps
<1>11. HistoryTypes'
  BY <1>6, <1>9 DEF HistoryTypes
<1>12. url' = e
  BY <1>9 DEF url
<1>13. PageIsMounted' /\ ReviewIsOfUrl' /\ ActionsAreSound'
  BY <1>5, <1>6, <1>12, ParsedIsOwn, InboxAlone
<1>14. OnlySidebarLinksDiverge'
  <2>1. inbox' = Parse(e) /\ history'[source'] = e
    BY <1>6, <1>9
  <2>2. \A n \in Nat : \A i \in n + 1 .. n : FALSE
    OBVIOUS
  <2>3. \A i \in source' + 1 .. at' : FALSE
    BY <1>6, <1>9, <2>2
  <2> QED BY <2>1, <2>3 DEF OnlySidebarLinksDiverge, Parse
<1> QED BY <1>10, <1>11, <1>13, <1>14 DEF IInv

(* A sidebar link within the inbox: its state stays behind its URL. *)
LEMMA SidebarIInv ==
  ASSUME IInv, NEW view \in Views, FollowSidebar(view)
  PROVE  IInv'
<1>1. PICK e : e = InboxAt("", view, "priority", NoTask, "link")
  OBVIOUS
<1>2. /\ e \in InboxEntry /\ e \in Entries /\ e.task = NoTask /\ e.by = "link"
      /\ e.page = "inbox"
  <2>1. "" \in Texts /\ "priority" \in Sorts
    BY ConsoleAssumption DEF Sorts
  <2>2. e \in InboxEntry /\ e.task = NoTask /\ e.by = "link" /\ e.page = "inbox"
    BY <1>1, <2>1 DEF InboxAt, InboxEntry
  <2> QED BY <2>2 DEF Entries
<1>3. CASE ~OnInbox
  <2>1. Visit(e)
    BY <1>1, <1>3 DEF FollowSidebar
  <2> QED BY <1>2, <2>1, VisitIInv
<1>4. CASE OnInbox
  <2>1. Push(e) /\ UNCHANGED <<inbox, review, recovery, source>>
    BY <1>1, <1>4 DEF FollowSidebar
  <2>2. /\ HistoryTypes /\ LinksSelectNothing /\ SelectionsAreSteps /\ OnlySidebarLinksDiverge
        /\ PageIsMounted
    BY DEF IInv
  <2>3. /\ history' \in Seq(Entries) /\ at' \in 1 .. Len(history') /\ Len(history') <= MaxHistory
        /\ history'[at'] = e /\ at' = at + 1 /\ \A i \in 1 .. at : history'[i] = history[i]
    BY <1>2, <2>1, <2>2, PushedEntries
  <2>4. source \in 1 .. at /\ at \in Nat
    BY <2>2, WhereItIs
  <2>5. LinksSelectNothing' /\ SelectionsAreSteps'
    BY <1>2, <2>1, <2>2, PushKeepsSteps
  <2>6. HistoryTypes'
    BY <2>1, <2>3, <2>4 DEF HistoryTypes
  <2>7. url' = e
    BY <2>3 DEF url
  <2>8. PageIsMounted' /\ ReviewIsOfUrl' /\ ActionsAreSound'
    <3>1. inbox' \in InboxState
      BY <1>4, <2>1, <2>2 DEF PageIsMounted, OnInbox
    <3> QED BY <1>2, <1>4, <2>1, <2>7, <3>1, InboxAlone
  <2>9. OnlySidebarLinksDiverge'
    <3>1. /\ inbox = Parse(history[source])
          /\ \A i \in source + 1 .. at : history[i].by = "link"
      BY <1>4, <2>2 DEF OnlySidebarLinksDiverge
    <3>2. inbox' = Parse(history[source]) /\ history'[source'] = history[source]
      BY <2>1, <2>3, <2>4, <3>1
    <3>3. ASSUME NEW i \in source + 1 .. at + 1 PROVE history'[i].by = "link"
      <4>1. CASE i = at + 1
        BY <1>2, <2>3, <4>1
      <4>2. CASE i # at + 1
        <5>1. i \in 1 .. at /\ i \in source + 1 .. at
          BY <2>4, <4>2
        <5> QED BY <2>3, <3>1, <5>1
      <4> QED BY <4>1, <4>2
    <3>4. \A i \in source' + 1 .. at' : history'[i].by = "link"
      BY <2>1, <2>3, <3>3
    <3> QED BY <3>2, <3>4 DEF OnlySidebarLinksDiverge, Parse
  <2> QED BY <2>5, <2>6, <2>8, <2>9 DEF IInv
<1> QED BY <1>3, <1>4

------------------------------------------------------------------------------
(* The review and the recovery of a run. *)

(* A review that is neither out of date nor expired is of the current versions, and of a
   reservation that holds. *)
LEMMA ReviewedIsCurrent ==
  ASSUME IInv, Reviewing
  PROVE  /\ url.page = "approval" /\ review \in Review
         /\ review.status = "pending" /\ review.active
         /\ ScenarioOf(url) = "active" /\ url.versions = "current" /\ url.scenario = "active"
<1>1. /\ url.page = "approval" /\ review.status = "pending" /\ review.active
      /\ review \in Review
  BY DEF IInv, Reviewing, Blocked, PageIsMounted
<1>2. ScenarioOf(url) # "stale" /\ ScenarioOf(url) # "expired"
  BY <1>1 DEF IInv, ReviewIsOfUrl
<1>3. url \in ApprovalEntry
  BY <1>1, WhereItIs, EntryKinds DEF IInv
<1>4. url.versions = "current" /\ url.scenario = "active" /\ ScenarioOf(url) = "active"
  BY <1>2, <1>3 DEF ScenarioOf, ApprovalEntry
<1> QED BY <1>1, <1>4

(* What is typed or decided on such a review. *)
LEMMA ReviewIInv ==
  ASSUME IInv, Reviewing, UNCHANGED <<history, at, inbox, recovery, source>>,
         NEW v \in Review, review' = v, v.active = review.active,
         \/ v.status = "pending"
         \/ v.status \in Outcomes /\ v.reason = "sufficient" /\ ~v.error
  PROVE  IInv'
<1>1. /\ url.page = "approval" /\ url.versions = "current" /\ url.scenario = "active"
      /\ ScenarioOf(url) = "active" /\ review.active
  BY ReviewedIsCurrent
<1>2. url' = url
  BY DEF url
<1>3. v.status # "stale"
  BY DEF Outcomes
<1>4. HistoryTypes' /\ LinksSelectNothing' /\ SelectionsAreSteps'
  BY DEF IInv, HistoryTypes, LinksSelectNothing, SelectionsAreSteps
<1>5. PageIsMounted'
  BY <1>1, <1>2 DEF IInv, PageIsMounted
<1>6. ReviewIsOfUrl'
  BY <1>1, <1>2, <1>3 DEF ReviewIsOfUrl, ScenarioOf
<1>7. OnlySidebarLinksDiverge'
  BY <1>1, <1>2 DEF OnlySidebarLinksDiverge, OnInbox
<1>8. ActionsAreSound'
  BY <1>1, <1>2 DEF IInv, ActionsAreSound, Outcomes, RunScenario
<1> QED BY <1>4, <1>5, <1>6, <1>7, <1>8 DEF IInv

(* The reason. *)
LEMMA GiveReasonIInv ==
  ASSUME IInv, NEW reason \in Reasons, GiveReason(reason)
  PROVE  IInv'
<1>1. Reviewing /\ review \in Review /\ review.status = "pending"
  BY ReviewedIsCurrent DEF GiveReason
<1>2. PICK v : v = [review EXCEPT !.reason = reason]
  OBVIOUS
<1>3. v \in Review /\ v.active = review.active /\ v.status = "pending"
  BY <1>1, <1>2 DEF Review
<1>4. review' = v /\ UNCHANGED <<history, at, inbox, recovery, source>>
  BY <1>2 DEF GiveReason
<1> QED BY <1>1, <1>3, <1>4, ReviewIInv

(* The decision. *)
LEMMA DecideIInv ==
  ASSUME IInv, NEW outcome \in Outcomes, Decide(outcome)
  PROVE  IInv'
<1>1. Reviewing /\ review \in Review /\ review.status = "pending"
  BY ReviewedIsCurrent DEF Decide
<1>2. review' = Submitted(outcome) /\ UNCHANGED <<history, at, inbox, recovery, source>>
  BY DEF Decide
<1>3. CASE LongEnough(review.reason)
  <2>1. PICK v : v = [review EXCEPT !.status = outcome, !.error = FALSE]
    OBVIOUS
  <2>2. /\ v \in Review /\ v.active = review.active /\ v.status = outcome
        /\ v.reason = "sufficient" /\ ~v.error
    BY <1>1, <1>3, <2>1 DEF Review, LongEnough
  <2>3. review' = v
    BY <1>2, <1>3, <2>1 DEF Submitted
  <2> QED BY <1>1, <1>2, <2>2, <2>3, ReviewIInv
<1>4. CASE ~LongEnough(review.reason)
  <2>1. PICK v : v = [review EXCEPT !.error = TRUE]
    OBVIOUS
  <2>2. v \in Review /\ v.active = review.active /\ v.status = "pending"
    BY <1>1, <2>1 DEF Review
  <2>3. review' = v
    BY <1>2, <1>4, <2>1 DEF Submitted
  <2> QED BY <1>1, <1>2, <2>2, <2>3, ReviewIInv
<1> QED BY <1>3, <1>4

(* The recovery of a run. *)
LEMMA StartRecoveryIInv ==
  ASSUME IInv, StartRecovery
  PROVE  IInv'
<1>1. /\ url.page = "run" /\ RunScenario(url) # "completed"
      /\ recovery' = RecoveryOf(RunScenario(url))
      /\ UNCHANGED <<history, at, inbox, review, source>>
  BY DEF StartRecovery
<1>2. url' = url
  BY <1>1 DEF url
<1>3. HistoryTypes' /\ LinksSelectNothing' /\ SelectionsAreSteps'
  BY <1>1 DEF IInv, HistoryTypes, LinksSelectNothing, SelectionsAreSteps
<1>4. PageIsMounted' /\ ReviewIsOfUrl' /\ OnlySidebarLinksDiverge'
  BY <1>1, <1>2
    DEF IInv, PageIsMounted, ReviewIsOfUrl, OnlySidebarLinksDiverge, OnInbox, Recoveries,
        RecoveryOf
<1>5. ActionsAreSound'
  BY <1>1, <1>2 DEF ActionsAreSound, RecoveryOf, RunScenario
<1> QED BY <1>3, <1>4, <1>5 DEF IInv

------------------------------------------------------------------------------
(* Every step. *)

(* Any page may be loaded first. *)
LEMMA InitIInv == Init => IInv
<1> SUFFICES ASSUME Init PROVE IInv
  OBVIOUS
<1>1. PICK e \in Entries :
        /\ history = <<e>>
        /\ inbox = IF e.page = "inbox" THEN Parse(e) ELSE NoState
        /\ review = IF e.page = "approval" THEN NewReview(e) ELSE NoState
        /\ e.page = "inbox" => e.by = "load"
  <2>1. PICK e \in WorkspaceEntry \cup ApprovalEntry \cup RunEntry
                     \cup EvidenceEntry \cup {i \in InboxEntry : i.by = "load"} :
          /\ history = <<e>>
          /\ inbox = IF e.page = "inbox" THEN Parse(e) ELSE NoState
          /\ review = IF e.page = "approval" THEN NewReview(e) ELSE NoState
    BY DEF Init
  <2>2. e \in Entries
    BY DEF Entries
  <2>3. e.page = "inbox" => e.by = "load"
    BY DEF WorkspaceEntry, ApprovalEntry, RunEntry, EvidenceEntry
  <2> QED BY <2>1, <2>2, <2>3
<1>2. /\ at = 1 /\ source = 1 /\ recovery = "none" /\ Len(history) = 1 /\ history[1] = e
      /\ url = e /\ history \in Seq(Entries) /\ DOMAIN history = {1}
  BY <1>1 DEF Init, url
<1>3. HistoryTypes
  <2>1. 1 <= MaxHistory
    <3>1. MaxHistory \in Nat \ {0}
      BY ConsoleAssumption
    <3> QED BY <3>1
  <2>2. at \in 1 .. Len(history) /\ source \in 1 .. at
    BY <1>2
  <2> QED BY <1>2, <2>1, <2>2 DEF HistoryTypes
<1>4. PageIsMounted
  BY <1>1, <1>2, EntryKinds, ParsedIsOwn, NewReviewIsOfUrl DEF PageIsMounted, Recoveries
<1>5. LinksSelectNothing /\ SelectionsAreSteps
  BY <1>1, <1>2 DEF LinksSelectNothing, SelectionsAreSteps
<1>6. ReviewIsOfUrl /\ ActionsAreSound
  BY <1>1, <1>2, EntryKinds, NewReviewIsOfUrl DEF ReviewIsOfUrl, ActionsAreSound
<1>7. OnlySidebarLinksDiverge
  BY <1>1, <1>2 DEF OnlySidebarLinksDiverge, OnInbox
<1> QED BY <1>3, <1>4, <1>5, <1>6, <1>7 DEF IInv

(* The links that lead from one page to another. *)
LEMMA LinksIInv ==
  ASSUME IInv,
         \/ \E t \in Listed : OpenTask(t)
         \/ BackToInbox \/ ReviewApproval \/ LeaveApproval
         \/ OpenTimeline \/ LeaveTimeline \/ SeeEvidence
         \/ \E scenario \in {"completed", "failed", "uncertain"} : ShowScenario(scenario)
         \/ \E e \in Cases : OpenCase(e)
  PROVE  IInv'
<1>1. url \in Entries
  BY WhereItIs DEF IInv
<1>2. ASSUME NEW e \in Entries, e.page # "inbox", Visit(e) PROVE IInv'
  BY <1>2, VisitIInv
<1>3. /\ url.page = "workspace" => url.task \in Listed
      /\ url.page = "approval" => url.task \in Listed
      /\ url.page = "run" => url.task \in Listed /\ url \in RunEntry
  BY <1>1, EntryKinds DEF WorkspaceEntry, ApprovalEntry, RunEntry
<1>4. \A t \in Listed : [page |-> "workspace", task |-> t] \in Entries
  BY DEF Entries, WorkspaceEntry
<1>5. ASSUME NEW t \in Listed, OpenTask(t) PROVE IInv'
  BY <1>2, <1>4, <1>5 DEF OpenTask
<1>6. CASE BackToInbox
  <2>1. PICK e : e = InboxAt("", "all", "priority", url.task, "load")
    OBVIOUS
  <2>2. /\ e \in InboxEntry /\ e.by = "load"
    BY <1>3, <1>6, <2>1, ConsoleAssumption DEF BackToInbox, InboxAt, InboxEntry, Views, Sorts
  <2>3. e \in Entries
    BY <2>2 DEF Entries
  <2>4. Visit(e)
    BY <1>6, <2>1 DEF BackToInbox
  <2> QED BY <2>2, <2>3, <2>4, VisitIInv
<1>7. CASE ReviewApproval
  <2>1. [page |-> "approval", task |-> url.task,
         scenario |-> "active", versions |-> "current"] \in Entries
    BY <1>3, <1>7 DEF ReviewApproval, Entries, ApprovalEntry
  <2> QED BY <1>2, <1>7, <2>1 DEF ReviewApproval
<1>8. CASE LeaveApproval
  BY <1>2, <1>3, <1>4, <1>8 DEF LeaveApproval
<1>9. CASE OpenTimeline
  <2>1. [page |-> "run", task |-> url.task, scenario |-> "unset"] \in Entries
    BY <1>3, <1>9 DEF OpenTimeline, Entries, RunEntry
  <2> QED BY <1>2, <1>9, <2>1 DEF OpenTimeline
<1>10. CASE LeaveTimeline
  BY <1>2, <1>3, <1>4, <1>10 DEF LeaveTimeline
<1>11. CASE SeeEvidence
  <2>1. [page |-> "evidence"] \in Entries
    BY DEF Entries, EvidenceEntry
  <2> QED BY <1>2, <1>11, <2>1 DEF SeeEvidence
<1>12. ASSUME NEW scenario \in {"completed", "failed", "uncertain"}, ShowScenario(scenario)
       PROVE  IInv'
  <2>1. PICK e : e = [url EXCEPT !.scenario = scenario]
    OBVIOUS
  <2>2. e \in RunEntry /\ e.page # "inbox"
    BY <1>3, <1>12, <2>1 DEF ShowScenario, RunEntry
  <2>3. e \in Entries /\ Visit(e)
    BY <1>12, <2>1, <2>2 DEF ShowScenario, Entries
  <2> QED BY <1>2, <2>2, <2>3
<1>13. ASSUME NEW e \in Cases, OpenCase(e) PROVE IInv'
  <2>1. e \in Entries /\ e.page # "inbox"
    BY DEF Cases, Entries, RunEntry, ApprovalEntry
  <2> QED BY <1>2, <1>13, <2>1 DEF OpenCase
<1> QED BY <1>5, <1>6, <1>7, <1>8, <1>9, <1>10, <1>11, <1>12, <1>13

(* The controls of the inbox. *)
LEMMA ControlsIInv ==
  ASSUME IInv,
         \/ \E x \in Texts : Search(x)
         \/ \E view \in Views : FilterView(view)
         \/ \E sort \in Sorts : Sort(sort)
         \/ ClearFilters
         \/ \E t \in Listed, step \in -1 .. 1 : PressKey(t, step)
  PROVE  IInv'
<1>1. ASSUME OnInbox
      PROVE  Parse(url).query \in Texts /\ Parse(url).view \in Views /\ Parse(url).sort \in Sorts
  <2>1. url \in InboxEntry
    BY <1>1, WhereItIs, EntryKinds DEF IInv, OnInbox
  <2> QED BY <2>1, ParsedIsOwn
<1>2. ASSUME NEW x \in Texts, Search(x) PROVE IInv'
  BY <1>1, <1>2, ReplaceIInv DEF Search
<1>3. ASSUME NEW view \in Views, FilterView(view) PROVE IInv'
  BY <1>1, <1>3, ReplaceIInv DEF FilterView
<1>4. ASSUME NEW sort \in Sorts, Sort(sort) PROVE IInv'
  BY <1>1, <1>4, ReplaceIInv DEF Sort
<1>5. CASE ClearFilters
  <2>1. "" \in Texts /\ "all" \in Views
    BY ConsoleAssumption DEF Views
  <2> QED BY <1>1, <1>5, <2>1, ReplaceIInv DEF ClearFilters
<1>6. ASSUME NEW t \in Listed, NEW step \in -1 .. 1, PressKey(t, step) PROVE IInv'
  <2>1. PICK u \in Listed : Select(u)
    BY <1>6 DEF PressKey, Shown
  <2> QED BY <1>6, <2>1, SelectIInv DEF PressKey
<1> QED BY <1>2, <1>3, <1>4, <1>5, <1>6

(* The invariant holds in every reachable state. *)
THEOREM Invariance == Spec => []IInv
<1>1. IInv /\ [Next]_vars => IInv'
  <2> SUFFICES ASSUME IInv, [Next]_vars PROVE IInv'
    OBVIOUS
  <2>1. CASE UNCHANGED vars
    <3>1. HistoryTypes' /\ PageIsMounted' /\ LinksSelectNothing' /\ ReviewIsOfUrl'
      BY <2>1 DEF vars, IInv, HistoryTypes, PageIsMounted, LinksSelectNothing, ReviewIsOfUrl, url
    <3>2. OnlySidebarLinksDiverge' /\ SelectionsAreSteps' /\ ActionsAreSound'
      BY <2>1 DEF vars, IInv, OnlySidebarLinksDiverge, SelectionsAreSteps, ActionsAreSound,
         OnInbox, url
    <3> QED BY <3>1, <3>2 DEF IInv
  <2>2. CASE Next
    BY <2>2, TraverseIInv, ControlsIInv, SidebarIInv, LinksIInv, StartRecoveryIInv,
       GiveReasonIInv, DecideIInv DEF Next
  <2> QED BY <2>1, <2>2
<1> QED BY <1>1, InitIInv, PTL DEF Spec

------------------------------------------------------------------------------
(* The theorems. *)

(* Every variable has its type: the inbox works with values of its own only, and a page
   that is not shown keeps no state. *)
THEOREM TypeCorrectness == Spec => []TypeOK
<1>1. IInv => TypeOK
  <2> SUFFICES ASSUME IInv PROVE TypeOK
    OBVIOUS
  <2>1. HistoryTypes /\ PageIsMounted
    BY DEF IInv
  <2>2. NoState \notin InboxState /\ NoState \notin Review
    BY ConsoleAssumption
  <2>3. history \in Seq(Entries) /\ at \in DOMAIN history /\ Len(history) <= MaxHistory
    BY <2>1, WhereItIs
  <2> QED BY <2>1, <2>2, <2>3 DEF TypeOK, HistoryTypes, PageIsMounted, OnInbox, Entries
<1> QED BY <1>1, Invariance, PTL

(* The inbox shows what the URL it has read says, and has missed no other change of it
   than sidebar links followed within it. *)
THEOREM UrlDivergence == Spec => []OnlySidebarLinksDiverge
BY Invariance, PTL DEF IInv

(* Going back from a selection never lands on the same one. *)
THEOREM Selections == Spec => []SelectionsAreSteps
BY Invariance, PTL DEF IInv

(* What is decided holds of the versions and the reservation shown beside it, and what is
   requested of a run is what its scenario allows. *)
THEOREM Soundness == Spec => []ActionsAreSound
BY Invariance, PTL DEF IInv
==============================================================================
