---------------------------- MODULE HistoryView ----------------------------
(***************************************************************************)
(* The call history of the application window: the hook useCallHistory,    *)
(* the panel that decides what can be clicked (CallHistoryPanel), the      *)
(* detail of a call (CallDetail), and the main process that answers.       *)
(* A list is read in pages by offset while calls are added in front of it; *)
(* answers arrive in the order of their requests, with the handlers of     *)
(* the store in between.  Calls are numbered as they begin.                *)
(***************************************************************************)
EXTENDS Naturals, Sequences

CONSTANTS PageSize,   \* PAGE_SIZE
          FirstStored,     \* the calls stored when the panel is first opened
          MaxStored,  \* bound: the calls that exist at the end
          MaxAsked    \* bound: requests for the list in flight

VARIABLES
  calls,     \* how many calls the store has
  live,      \* the last of them is in progress
  seen,      \* the status of the call shown in the window: none, live, settled
  timer,     \* the refresh after the end of a call is scheduled
  open,      \* the panel is mounted
  list,      \* summaries: the calls listed, and whether as over
  loading, hasMore, failed,
  asked,     \* requests for a page: its offset, and the page once it was read
  selected,  \* selectedId
  want,      \* the calls whose detail was asked for and has not come
  detail,    \* detail.session
  extra,     \* the call whose guardrail events are shown, and its request
  crossed    \* history: a refresh was answered while a further page was awaited, or a
             \* page came after more calls had begun than the list holds

historyVars == <<calls, live, seen, timer, open, list, loading, hasMore, failed, asked, selected, want,
                 detail, extra, crossed>>

None == 0
NoExtra == [of |-> None, shown |-> None]
Over(id) == id < calls \/ ~live
\* listCalls: newest first.
PageAt(offset) ==
  [k \in 1..(IF offset >= calls THEN 0 ELSE IF calls - offset < PageSize THEN calls - offset ELSE PageSize) |->
     [id |-> calls - offset - k + 1, over |-> Over(calls - offset - k + 1)]]

Init ==
  /\ calls = FirstStored /\ live = FALSE /\ seen = "none" /\ timer = FALSE
  /\ open = FALSE /\ list = <<>> /\ loading = FALSE /\ hasMore = FALSE /\ failed = FALSE /\ asked = <<>>
  /\ selected = None /\ want = {} /\ detail = None /\ extra = NoExtra /\ crossed = FALSE

Shut == <<selected, want, detail, extra>>
World == <<calls, live, seen>>

Ask(offset) == asked' = Append(asked, [offset |-> offset, page |-> <<>>, read |-> FALSE])

\* What the panel shows: the detail once there is one, the wait for it, its error, or the list.
DetailShown == selected # None /\ detail # None
ListShown_meanwhile == open /\ ~DetailShown /\ ~loading /\ ~failed /\ list # <<>>
ListShown == open /\ selected = None /\ ~loading /\ ~failed /\ list # <<>>

\* refresh, by the mount of the panel, by its button, or by the timer.
Refresh ==
  /\ loading' = TRUE /\ failed' = FALSE /\ Ask(0)
Open ==
  /\ ~open /\ open' = TRUE /\ Refresh
  /\ UNCHANGED <<World, timer, list, hasMore, Shut, crossed>>
\* Leaving the tab unmounts the panel: its state and timer go, late answers find nobody.
Close ==
  /\ open /\ open' = FALSE /\ timer' = FALSE
  /\ list' = <<>> /\ loading' = FALSE /\ hasMore' = FALSE /\ failed' = FALSE /\ asked' = <<>>
  /\ selected' = None /\ want' = {} /\ detail' = None /\ extra' = NoExtra /\ crossed' = FALSE
  /\ UNCHANGED World
RefreshClicked ==
  /\ open /\ ~DetailShown /\ ~loading /\ Len(asked) < MaxAsked /\ Refresh
  /\ UNCHANGED <<World, timer, open, list, hasMore, Shut, crossed>>
RefreshAfterEnd ==
  /\ timer /\ Len(asked) < MaxAsked /\ timer' = FALSE /\ Refresh
  /\ UNCHANGED <<World, open, list, hasMore, Shut, crossed>>
LoadMore ==
  /\ ListShown /\ hasMore /\ Len(asked) < MaxAsked
  /\ loading' = TRUE /\ failed' = FALSE /\ Ask(Len(list))
  /\ UNCHANGED <<World, timer, open, list, hasMore, Shut, crossed>>

\* The main process reads the pages in the order they were asked for.
Read ==
  \E k \in DOMAIN asked :
    /\ ~asked[k].read /\ \A j \in 1..(k-1) : asked[j].read
    /\ asked' = [asked EXCEPT ![k] = [offset |-> asked[k].offset, page |-> PageAt(asked[k].offset), read |-> TRUE]]
    /\ UNCHANGED <<World, timer, open, list, loading, hasMore, failed, Shut, crossed>>

\* A page arrives: the first one replaces the list, another is added to what
\* the list is by now. The first answer ends the wait of all.
Arrive ==
  /\ asked # <<>> /\ Head(asked).read
  /\ LET answer == Head(asked) IN
     /\ hasMore' = (Len(answer.page) = PageSize)
     /\ list' = IF answer.offset = 0 THEN answer.page ELSE list \o answer.page
     /\ crossed' = IF answer.offset = 0 THEN \E k \in DOMAIN Tail(asked) : Tail(asked)[k].offset # 0
                   ELSE crossed \/ (answer.page # <<>> /\ list # <<>> /\ answer.page[1].id > list[1].id)
  /\ loading' = FALSE /\ asked' = Tail(asked)
  /\ UNCHANGED <<World, timer, open, failed, Shut>>
\* A request for a page fails.
PageFails ==
  /\ asked # <<>> /\ failed' = TRUE /\ loading' = FALSE /\ asked' = Tail(asked)
  /\ UNCHANGED <<World, timer, open, list, hasMore, Shut, crossed>>

\* selectCall: a row of the list is clicked, and what is known of its call asked for.
Select ==
  /\ ListShown
  /\ \E k \in DOMAIN list : selected' = list[k].id /\ want' = want \cup {list[k].id}
  /\ detail' = None
  /\ UNCHANGED <<World, timer, open, list, loading, hasMore, failed, asked, extra, crossed>>
\* The call, its transcript and its recording have arrived; CallDetail asks for the rest.
DetailArrives ==
  /\ \E id \in want : detail' = id /\ want' = want \ {id} /\ extra' = [of |-> id, shown |-> None]
  /\ UNCHANGED <<World, timer, open, list, loading, hasMore, failed, asked, selected, crossed>>
DetailFails ==
  /\ \E id \in want : want' = want \ {id}
  /\ UNCHANGED <<World, timer, open, list, loading, hasMore, failed, asked, selected, detail, extra, crossed>>
\* The effect of CallDetail: guardrail events and appointments, unless it was left.
ExtraArrives ==
  /\ extra.of # None /\ extra' = [of |-> None, shown |-> extra.of]
  /\ UNCHANGED <<World, timer, open, list, loading, hasMore, failed, asked, selected, want, detail, crossed>>
\* clearSelection, from the detail or from its error.
Back ==
  /\ DetailShown \/ (selected # None /\ want = {} /\ detail = None)
  /\ selected' = None /\ detail' = None /\ extra' = NoExtra
  /\ UNCHANGED <<World, timer, open, list, loading, hasMore, failed, asked, want, crossed>>

\* A call begins; the effect that waited to refresh is cleaned up.
CallBegins ==
  /\ ~live /\ calls < MaxStored
  /\ calls' = calls + 1 /\ live' = TRUE /\ seen' = "live" /\ timer' = FALSE
  /\ UNCHANGED <<open, list, loading, hasMore, failed, asked, Shut, crossed>>
\* The end of a call is stored before the window shows it.
CallEnds ==
  /\ live /\ live' = FALSE
  /\ UNCHANGED <<calls, seen, timer, open, list, loading, hasMore, failed, asked, Shut, crossed>>
EndIsShown ==
  /\ ~live /\ seen = "live" /\ seen' = "settled" /\ timer' = open
  /\ UNCHANGED <<calls, live, open, list, loading, hasMore, failed, asked, Shut, crossed>>

Next ==
  \/ Open \/ Close \/ RefreshClicked \/ RefreshAfterEnd \/ LoadMore \/ Read \/ Arrive \/ PageFails
  \/ Select \/ DetailArrives \/ DetailFails \/ ExtraArrives \/ Back
  \/ CallBegins \/ CallEnds \/ EndIsShown

\* The main process answers, the timer fires, and the window hears of the end.
Fairness ==
  /\ WF_historyVars(Read) /\ WF_historyVars(Arrive) /\ WF_historyVars(DetailArrives)
  /\ WF_historyVars(RefreshAfterEnd) /\ WF_historyVars(EndIsShown)
Spec == Init /\ [][Next]_historyVars /\ Fairness

(***************************************************************************)
(* Properties                                                               *)
(***************************************************************************)
\* Every variable has its type.
TypeOK ==
  /\ calls \in 0..MaxStored /\ seen \in {"none", "live", "settled"}
  /\ {live, timer, open, loading, hasMore, failed, crossed} \subseteq BOOLEAN
  /\ \A k \in DOMAIN list : list[k].id \in 1..calls
  /\ Len(asked) <= MaxAsked /\ want \cup {selected, detail, extra.of, extra.shown} \subseteq 0..calls

\* The detail shown is of the call that was selected, although nothing in
\* selectCall compares them: the panel offers no row while a detail is awaited.
DetailIsOfSelected ==
  /\ want \subseteq {selected}
  /\ detail # None => detail = selected
  /\ extra.shown # None => extra.shown = detail

\* Paging by offset over a list that grows in front skips no call, unless a
\* refresh is answered between the request for a page and its answer, or more
\* calls have begun since the list was read than it holds.
NoCallIsSkipped ==
  ~crossed => \A j, k \in DOMAIN list : \A id \in list[k].id..list[j].id : \E i \in DOMAIN list : list[i].id = id

\* A list that is read from its beginning after a call has ended shows it as over,
\* unless another call began, the reading failed, or the panel was left.
EndIsListed ==
  (open /\ seen = "settled" /\ timer) ~>
     \/ list # <<>> /\ list[1] = [id |-> calls, over |-> TRUE]
     \/ seen = "live" \/ failed \/ ~open

\* What the list waits for comes, or is given up.
LoadingEnds == loading ~> ~loading
=============================================================================
