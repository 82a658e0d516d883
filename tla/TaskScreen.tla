---------------------------- MODULE TaskScreen ----------------------------
(***************************************************************************)
(* The task manager of the terminal interface: keys are handled one by one *)
(* in the interface's own goroutine, while every tick starts a refresh in  *)
(* another one, which reads MongoDB and then writes the fields and widgets *)
(* the keys work on. Nothing but the deletion asks before it acts. Texts,  *)
(* colours and the focus of the menu are left out. The other pages (nodes, *)
(* queues, config) only show what they read: no key reaches their forms.   *)
(***************************************************************************)
EXTENDS Integers, Sequences, FiniteSets, Functions

CONSTANTS
  Docs,                       \* task documents, numbers: the order ListTasks returns
  Refreshes,                  \* goroutines that refresh
  MaxKeys, MaxScreenFaults    \* bounds

VARIABLES
  stored,       \* the documents in MongoDB
  isOn,         \* Doc -> status.enabled in MongoDB
  page,         \* currentPage
  named,        \* the document the confirmation names, 0 if it is not shown
  buttons,      \* do the keys of the detail page reach its buttons?
  docList,      \* v.tasks
  rows,         \* the documents the table shows
  listedOn,     \* what v.tasks says of enabled
  current,      \* currentTask, 0 for nil
  currentOn,    \* its Status.Enabled
  shown,        \* the document the detail page shows
  refresh,      \* Refresh -> its next step
  found,        \* Refresh -> what it has read
  ran,          \* documents that were pushed to the pending queue
  stray, late,  \* see ActsOnChosen
  keys, screenFaults

screenVars == <<stored, isOn, page, named, buttons, docList, rows, listedOn, current, currentOn,
                shown, refresh, found, ran, stray, late, keys, screenFaults>>
database == <<stored, isOn, ran>>
lists == <<docList, rows, listedOn>>
details == <<current, currentOn, shown, buttons>>
goroutines == <<refresh, found>>
marks == <<stray, late>>

Nil == 0
Listed(docs) == [i \in 1 .. Cardinality(docs) |->
                   CHOOSE d \in docs : Cardinality({e \in docs : e < d}) = i - 1]

\* NewApp: the screen starts empty on the list.
Init ==
  /\ stored = Docs /\ isOn = [d \in Docs |-> TRUE] /\ ran = {}
  /\ page = "list" /\ named = Nil /\ buttons = TRUE
  /\ docList = <<>> /\ rows = <<>> /\ listedOn = [d \in Docs |-> TRUE]
  /\ current = Nil /\ currentOn = TRUE /\ shown = Nil
  /\ refresh = [r \in Refreshes |-> "idle"] /\ found = [r \in Refreshes |-> <<>>]
  /\ stray = {} /\ late = {} /\ keys = 0 /\ screenFaults = 0

-----------------------------------------------------------------------------
(* The keys.                                                               *)

Pressed == keys < MaxKeys /\ keys' = keys + 1

\* Acting on d for the document c the user sees.
Acts(d, c) == stray' = IF d = c THEN stray ELSE stray \cup {d}

\* refreshTasks in the interface's goroutine: list and table change together.
ListShown(docs, on) == docList' = Listed(docs) /\ rows' = Listed(docs) /\ listedOn' = on

Shows(p) == page' = p /\ named' = Nil   \* SwitchToPage hides the dialog

OnList(i) == page = "list" /\ named = Nil /\ i \in DOMAIN rows /\ i \in DOMAIN docList
OnDetail == page = "detail" /\ named = Nil /\ buttons /\ current # Nil

PickStale(i) == IF current # Nil THEN current ELSE docList[i]  \* bug: the row is not taken over
Pick(i) == docList[i]

\* showTaskDetail
EnterKey(i) ==
  /\ Pressed /\ OnList(i)
  /\ current' = Pick(i) /\ currentOn' = listedOn[Pick(i)] /\ shown' = Pick(i) /\ buttons' = TRUE
  /\ Shows("detail")
  /\ UNCHANGED <<database, lists, goroutines, marks, screenFaults>>

DeleteKey(d, on) ==
  /\ Pressed /\ named' = d
  /\ current' = d /\ currentOn' = on
  /\ UNCHANGED <<database, page, lists, shown, buttons, goroutines, marks, screenFaults>>

\* deleteTask takes currentTask, not what the dialog named.
Confirm ==
  /\ Pressed /\ named # Nil
  /\ \/ /\ current \in stored
        /\ stored' = stored \ {current}
        /\ Acts(current, named)
        /\ current' = Nil /\ Shows("list") /\ ListShown(stored', isOn)
        /\ UNCHANGED screenFaults
     \/ /\ current # Nil /\ (current \in stored => screenFaults < MaxScreenFaults)
        /\ screenFaults' = IF current \in stored THEN screenFaults + 1 ELSE screenFaults
        /\ named' = Nil
        /\ UNCHANGED <<stored, stray, current, page, lists>>
  /\ UNCHANGED <<isOn, ran, currentOn, shown, buttons, goroutines, late>>

Cancel ==
  /\ Pressed /\ named # Nil /\ named' = Nil
  /\ UNCHANGED <<database, page, lists, details, goroutines, marks, screenFaults>>

\* toggleTask: what is written follows from the copy, however old it is.
ToggleKey(d, on, c) ==
  /\ Pressed /\ current' = d /\ currentOn' = on
  /\ isOn' = IF d \in stored THEN [isOn EXCEPT ![d] = ~on] ELSE isOn
  /\ Acts(d, c) /\ ListShown(stored, isOn')
  /\ UNCHANGED <<stored, ran, page, named, shown, buttons, goroutines, late, screenFaults>>

\* runTask leaves the focus on the text, which passes no key on.
RunKey ==
  /\ Pressed /\ OnDetail
  /\ \/ /\ ran' = ran \cup {current} /\ Acts(current, shown) /\ buttons' = FALSE
        /\ UNCHANGED screenFaults
     \/ /\ screenFaults < MaxScreenFaults /\ screenFaults' = screenFaults + 1
        /\ UNCHANGED <<ran, stray, buttons>>
  /\ UNCHANGED <<stored, isOn, page, named, lists, current, currentOn, shown, goroutines, late>>

BackKey ==
  /\ Pressed /\ page = "detail" /\ named = Nil /\ buttons
  /\ Shows("list") /\ ListShown(stored, isOn)
  /\ UNCHANGED <<database, details, goroutines, marks, screenFaults>>

\* showTaskForm: the form has neither Save nor Cancel when it edits and is not on the page
\* when it adds, so that no key of it does anything.
FormKey(d, on) ==
  /\ Pressed /\ Shows("form")
  /\ current' = d /\ currentOn' = on
  /\ UNCHANGED <<database, lists, shown, buttons, goroutines, marks, screenFaults>>

RefreshKey ==
  /\ Pressed /\ page = "list" /\ named = Nil /\ ListShown(stored, isOn)
  /\ UNCHANGED <<database, page, named, details, goroutines, marks, screenFaults>>

\* F10, and the program started again.
Quit ==
  /\ Pressed /\ page = "form"
  /\ Shows("list") /\ ListShown({}, isOn)
  /\ current' = Nil /\ currentOn' = TRUE /\ shown' = Nil /\ buttons' = TRUE
  /\ refresh' = [r \in Refreshes |-> "idle"] /\ found' = [r \in Refreshes |-> <<>>]
  /\ UNCHANGED <<database, marks, screenFaults>>

-----------------------------------------------------------------------------
(* Refresh, in a goroutine of its own.                                     *)

Goes(r, to) == refresh' = [refresh EXCEPT ![r] = to]

\* refresh: ListTasks, or GetTask for the document that is current.
RefreshReads(r) ==
  /\ refresh[r] = "idle"
  /\ \/ /\ page = "list" /\ Goes(r, "listed")
        /\ found' = [found EXCEPT ![r] = Listed(stored)]
     \/ /\ page = "detail" /\ current \in stored /\ Goes(r, "loaded")
        /\ found' = [found EXCEPT ![r] = <<current>>]
  /\ UNCHANGED <<database, page, named, lists, details, marks, keys, screenFaults>>

\* v.tasks = tasks
RefreshAssigns(r) ==
  /\ refresh[r] = "listed" /\ Goes(r, "draw")
  /\ docList' = found[r] /\ listedOn' = isOn
  /\ late' = IF found[r] = rows THEN late ELSE late \cup Range(found[r])
  /\ UNCHANGED <<database, page, named, rows, details, found, stray, keys, screenFaults>>

\* The rows are made of the list that was read, which v.tasks may not be any more.
RefreshDraws(r) ==
  /\ refresh[r] = "draw" /\ Goes(r, "idle")
  /\ rows' = found[r] /\ found' = [found EXCEPT ![r] = <<>>]
  /\ late' = IF found[r] = docList THEN late ELSE late \cup Range(docList)
  /\ UNCHANGED <<database, page, named, docList, listedOn, details, stray, keys, screenFaults>>

\* v.currentTask = task, whatever the user has turned to since.
RefreshReplaces(r) ==
  LET d == found[r][1] IN
  /\ refresh[r] = "loaded" /\ Goes(r, "show")
  /\ current' = d /\ currentOn' = isOn[d]
  /\ late' = IF current = d THEN late ELSE late \cup {d}
  /\ UNCHANGED <<database, page, named, lists, shown, buttons, found, stray, keys, screenFaults>>

\* showTaskDetail: what is current by now, if anything.
RefreshShows(r) ==
  /\ refresh[r] = "show" /\ Goes(r, "idle") /\ found' = [found EXCEPT ![r] = <<>>]
  /\ IF current = Nil THEN UNCHANGED <<page, named, shown, buttons>>
     ELSE Shows("detail") /\ shown' = current /\ buttons' = TRUE
  /\ UNCHANGED <<database, lists, current, currentOn, marks, keys, screenFaults>>

\* Another program deletes a document.
DeletedElsewhere ==
  /\ screenFaults < MaxScreenFaults /\ screenFaults' = screenFaults + 1
  /\ \E d \in stored : stored' = stored \ {d}
  /\ UNCHANGED <<isOn, ran, page, named, lists, details, goroutines, marks, keys>>

KeyPressed ==
  \/ \E i \in DOMAIN rows :
       \/ EnterKey(i)
       \/ OnList(i) /\ \/ DeleteKey(Pick(i), listedOn[Pick(i)])
                       \/ ToggleKey(Pick(i), listedOn[Pick(i)], rows[i])
                       \/ FormKey(Pick(i), listedOn[Pick(i)])
  \/ OnDetail /\ \/ DeleteKey(current, currentOn)
                 \/ ToggleKey(current, currentOn, shown)
                 \/ FormKey(current, currentOn)
  \/ page = "list" /\ named = Nil /\ FormKey(Nil, TRUE)
  \/ Confirm \/ Cancel \/ RunKey \/ BackKey \/ RefreshKey \/ Quit

Refreshed(r) == RefreshReads(r) \/ RefreshAssigns(r) \/ RefreshDraws(r) \/ RefreshReplaces(r)
                \/ RefreshShows(r)

Next == KeyPressed \/ DeletedElsewhere \/ \E r \in Refreshes : Refreshed(r)

Spec == Init /\ [][Next]_screenVars

-----------------------------------------------------------------------------
\* The type of the state.
ScreenTypeOK ==
  /\ stored \subseteq Docs /\ isOn \in [Docs -> BOOLEAN] /\ ran \subseteq Docs
  /\ page \in {"list", "detail", "form"} /\ named \in Docs \cup {Nil}
  /\ buttons \in BOOLEAN /\ currentOn \in BOOLEAN
  /\ docList \in Seq(Docs) /\ rows \in Seq(Docs) /\ listedOn \in [Docs -> BOOLEAN]
  /\ {current, shown} \subseteq Docs \cup {Nil}
  /\ refresh \in [Refreshes -> {"idle", "listed", "draw", "loaded", "show"}]
  /\ found \in [Refreshes -> Seq(Docs)]
  /\ stray \subseteq Docs /\ late \subseteq Docs
  /\ keys \in 0 .. MaxKeys /\ screenFaults \in 0 .. MaxScreenFaults

\* A document that is deleted, run or toggled is the one the dialog names, the details show
\* or the row lists, unless a refresh has put another one in its place behind the user's
\* back (Refresh writes v.tasks and v.currentTask without the interface's goroutine).
ActsOnChosen == stray \subseteq late
=============================================================================
