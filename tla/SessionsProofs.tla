--------------------------- MODULE SessionsProofs ---------------------------
(***************************************************************************)
(* Theorems about Colab sessions and what depends on them.  Sessions, for  *)
(* any number of machines and of operations that overlap: what the app     *)
(* created stays listed, and a token that is stale alone is healed.        *)
(* Downloads, for any folder and any number of downloads: what is saved is *)
(* whole, and the file on the machine goes.  Background, for any number of *)
(* sessions, routes and calls: the phone follows the session.              *)
(***************************************************************************)
EXTENDS Sessions, Downloads, Background, SequenceTheorems, TLAPS

----------------------------------------------------------------------------
(* Downloads *)

Stage == {"idle", "zips", "fetches", "fetches again", "cleans", "ended"}

\* A download that the file waits for: it will fetch it or remove it.
Attends(d) == download[d] \in {"fetches", "fetches again", "cleans"}

DownloadsTypes ==
  /\ download \in [Download -> Stage]
  /\ throughout \in [Download -> SUBSET Entry]
  /\ folder \in SUBSET Entry

\* What a download may count on is still in the folder, hence in every file
\* that is written from now on, and in the file it is about to fetch.
Reliable ==
  \A d \in Download :
    /\ throughout[d] \subseteq folder
    /\ download[d] \in {"fetches", "fetches again"} /\ zip # None => throughout[d] \subseteq zip

SavedWhole == \A f \in saved : f.ought \subseteq f.content

\* A file on the machine has somebody who will remove it, or was left over.
Attended == zip # None /\ ~leftover => \E d \in Download : Attends(d)

DownloadsInv == DownloadsTypes /\ Reliable /\ SavedWhole /\ Attended

----------------------------------------------------------------------------
\* Whatever the zip command finds there, what it leaves holds the folder.
LEMMA ArchiveHoldsFolder == ASSUME Archives PROVE folder \subseteq zip'
  BY DEF Archives

LEMMA DownloadsInitially == DownloadsInit => DownloadsInv
  BY DEF DownloadsInit, DownloadsInv, DownloadsTypes, Stage, Reliable, SavedWhole, Attended, Attends

\* The types, step by step.
LEMMA TypesStep == DownloadsInv /\ [DownloadsNext]_downloadVars => DownloadsTypes'
<1> SUFFICES ASSUME DownloadsInv, [DownloadsNext]_downloadVars PROVE DownloadsTypes'
  OBVIOUS
<1> USE DEF DownloadsInv, DownloadsTypes, Stage
<1>1. CASE FolderChanges
  BY <1>1 DEF FolderChanges, steps
<1>2. ASSUME NEW d \in Download, handle_download_async(d) PROVE DownloadsTypes'
  BY <1>2 DEF handle_download_async, GoesTo
<1>3. ASSUME NEW d \in Download, Zips(d) \/ GivesUp(d) \/ ZipsLate(d) PROVE DownloadsTypes'
  BY <1>3 DEF Zips, GivesUp, ZipsLate, GoesTo, steps
<1>4. ASSUME NEW d \in Download, _download(d) \/ _run_with_token_heal(d) \/ FetchFails(d) \/ rm(d)
      PROVE DownloadsTypes'
  BY <1>4 DEF _download, _run_with_token_heal, FetchFails, rm, GoesTo
<1>5. CASE UNCHANGED downloadVars
  BY <1>5 DEF downloadVars, steps
<1>6. QED BY <1>1, <1>2, <1>3, <1>4, <1>5 DEF DownloadsNext

\* What downloads count on survives changes of the folder, and archives and
\* removals of other downloads.
LEMMA ReliableStep == DownloadsInv /\ [DownloadsNext]_downloadVars => Reliable'
<1> SUFFICES ASSUME DownloadsInv, [DownloadsNext]_downloadVars PROVE Reliable'
  OBVIOUS
<1> USE DEF DownloadsInv, DownloadsTypes, Stage, Reliable
<1>1. CASE FolderChanges
  BY <1>1 DEF FolderChanges, steps
<1>2. ASSUME NEW d \in Download, handle_download_async(d) PROVE Reliable'
  BY <1>2 DEF handle_download_async, GoesTo
<1>3. ASSUME NEW d \in Download, Zips(d) PROVE Reliable'
  <2>1. CASE Archives /\ GoesTo(d, "fetches")
    BY <1>3, <2>1, ArchiveHoldsFolder DEF Zips, GoesTo
  <2>2. CASE UNCHANGED zip /\ GoesTo(d, "cleans")
    BY <1>3, <2>2 DEF Zips, GoesTo
  <2>3. QED BY <1>3, <2>1, <2>2 DEF Zips
<1>4. ASSUME NEW d \in Download, GivesUp(d) PROVE Reliable'
  BY <1>4 DEF GivesUp, GoesTo
<1>5. ASSUME NEW d \in Download, ZipsLate(d) PROVE Reliable'
  BY <1>5, ArchiveHoldsFolder DEF ZipsLate, steps
<1>6. ASSUME NEW d \in Download, _download(d) \/ _run_with_token_heal(d) \/ FetchFails(d)
      PROVE Reliable'
  BY <1>6 DEF _download, _run_with_token_heal, FetchFails, GoesTo
<1>7. ASSUME NEW d \in Download, rm(d) PROVE Reliable'
  BY <1>7 DEF rm, GoesTo
<1>8. CASE UNCHANGED downloadVars
  BY <1>8 DEF downloadVars, steps
<1>9. QED BY <1>1, <1>2, <1>3, <1>4, <1>5, <1>6, <1>7, <1>8 DEF DownloadsNext

\* Only _download saves, and what it saves is the file it may rely on.
LEMMA SavedStep == DownloadsInv /\ [DownloadsNext]_downloadVars => SavedWhole'
<1> SUFFICES ASSUME DownloadsInv, [DownloadsNext]_downloadVars PROVE SavedWhole'
  OBVIOUS
<1> USE DEF DownloadsInv, SavedWhole
<1>1. ASSUME NEW d \in Download, _download(d) PROVE SavedWhole'
  <2>1. throughout[d] \subseteq zip
    BY <1>1 DEF _download, Reliable
  <2>2. ASSUME NEW f \in saved' PROVE f.ought \subseteq f.content
    <3>1. f \in saved \/ f = [number |-> number[d], content |-> zip, ought |-> throughout[d]]
      BY <1>1, <2>2 DEF _download
    <3>2. CASE f \in saved
      BY <3>2
    <3>3. CASE f = [number |-> number[d], content |-> zip, ought |-> throughout[d]]
      <4>1. f.ought = throughout[d] /\ f.content = zip
        BY <3>3
      <4>2. QED BY <4>1, <2>1
    <3>4. QED BY <3>1, <3>2, <3>3
  <2>3. QED BY <2>2
<1>2. CASE UNCHANGED saved
  BY <1>2
<1>3. ASSUME ~\E d \in Download : _download(d) PROVE UNCHANGED saved
  BY <1>3 DEF DownloadsNext, FolderChanges, handle_download_async, Zips, GivesUp, ZipsLate,
              _run_with_token_heal, FetchFails, rm, downloadVars
<1>4. QED BY <1>1, <1>2, <1>3

\* A file is made for a download that will attend to it; the last one to attend
\* either removes it or leaves it over.
LEMMA AttendedStep == DownloadsInv /\ [DownloadsNext]_downloadVars => Attended'
<1> SUFFICES ASSUME DownloadsInv, [DownloadsNext]_downloadVars PROVE Attended'
  OBVIOUS
<1> USE DEF DownloadsInv, DownloadsTypes, Stage, Attended, Attends
<1>1. CASE FolderChanges
  BY <1>1 DEF FolderChanges, steps
<1>2. ASSUME NEW d \in Download, handle_download_async(d) \/ GivesUp(d) PROVE Attended'
  BY <1>2 DEF handle_download_async, GivesUp, GoesTo
<1>3. ASSUME NEW d \in Download, Zips(d) PROVE Attended'
  BY <1>3 DEF Zips, GoesTo
<1>4. ASSUME NEW d \in Download, ZipsLate(d) PROVE Attended'
  BY <1>4 DEF ZipsLate
<1>5. ASSUME NEW d \in Download, _download(d) \/ _run_with_token_heal(d) \/ FetchFails(d)
      PROVE Attended'
  BY <1>5 DEF _download, _run_with_token_heal, FetchFails, GoesTo
<1>6. ASSUME NEW d \in Download, rm(d) PROVE Attended'
  BY <1>6 DEF rm
<1>7. CASE UNCHANGED downloadVars
  BY <1>7 DEF downloadVars, steps
<1>8. QED BY <1>1, <1>2, <1>3, <1>4, <1>5, <1>6, <1>7 DEF DownloadsNext

----------------------------------------------------------------------------
\* Whoever else zips, fetches or removes the file of a folder, a saved archive
\* holds what was there all along; and the file is gone when nobody downloads,
\* unless a removal failed or a zip came late (download_folder_impl).
THEOREM ArchivesStayWhole == DownloadsSpec => []ArchivesAreWhole
<1>1. DownloadsInv /\ [DownloadsNext]_downloadVars => DownloadsInv'
  BY TypesStep, ReliableStep, SavedStep, AttendedStep DEF DownloadsInv
<1>2. DownloadsInv => ArchivesAreWhole
  BY DEF DownloadsInv, SavedWhole, Attended, Attends, ArchivesAreWhole
<1>3. QED BY DownloadsInitially, <1>1, <1>2, PTL DEF DownloadsSpec

----------------------------------------------------------------------------
(* Background *)

Place == [subview : {"", "session", "history"}, session : Runtime \union {None}, mode : Mode, tab : Section]
Call == [for : Runtime \union {None}, sent : BOOLEAN, alone : BOOLEAN]

BackgroundTypes ==
  /\ where \in Place
  /\ echoes \in Seq(Route)
  /\ foreground \in BOOLEAN /\ wakelock \in BOOLEAN /\ tangled \in BOOLEAN /\ followed \in BOOLEAN
  /\ service \in Runtime \union {None} /\ fgs \in Runtime \union {None}
  /\ calls \in SUBSET Call

\* The session a route leaves open when s was: the history leaves it as it is.
SessionAfter(route, s) ==
  IF route.path = "history" THEN s ELSE IF route.path = "tab" THEN None ELSE route.to

\* The session once the routes on their way have come back, as the phone was told:
\* the last of them decides, as a history is only followed when it is alone.
ToSession ==
  IF echoes = << >> THEN where.session ELSE SessionAfter(echoes[Len(echoes)], where.session)

FollowedHistoryIsAlone ==
  followed /\ echoes # << >> /\ echoes[Len(echoes)].path = "history" => Len(echoes) = 1

WakelockFollows == foreground /\ followed => (wakelock <=> ToSession # None)

\* A call that runs alone is for the session, and has it shown once it is sent.
CallsFollow ==
  \A c \in calls :
    /\ c.alone => /\ calls = {c}
                  /\ followed => c.for = ToSession
                  /\ c.sent => service = c.for
    /\ ~tangled => c.alone

\* What _fgs_session says is what the phone shows.
ServiceFollows ==
  ~tangled /\ calls = {} => fgs = service /\ (followed => service = ToSession)

BackgroundInv ==
  BackgroundTypes /\ FollowedHistoryIsAlone /\ WakelockFollows /\ CallsFollow /\ ServiceFollows

LEMMA StartIsAPlace == Start \in Place /\ Start.session = None /\ << >> \in Seq(Route)
  BY RoutesAssumption DEF Start, Place, Mode

LEMMA BackgroundInitially == BackgroundInit => BackgroundInv
<1> SUFFICES ASSUME BackgroundInit PROVE BackgroundInv
  OBVIOUS
<1>1. /\ where = Start /\ echoes = << >> /\ foreground /\ ~wakelock
      /\ fgs = None /\ service = None /\ calls = {} /\ ~tangled /\ followed
  BY DEF BackgroundInit
<1>2. BackgroundTypes
  BY StartIsAPlace DEF BackgroundInit, BackgroundTypes
<1>3. QED BY <1>1, <1>2, StartIsAPlace
          DEF BackgroundInv, FollowedHistoryIsAlone, WakelockFollows, ToSession, CallsFollow, ServiceFollows

LEMMA RouteApplied ==
  ASSUME NEW s \in Place, NEW route \in Route
  PROVE  /\ _apply_route(s, route) \in Place
         /\ _apply_route(s, route).session = SessionAfter(route, s.session)
<1>1. CASE route \in [path : {"tab"}, to : Section]
  BY <1>1 DEF _apply_route, SessionAfter, Place, Mode
<1>2. CASE route \in [path : Mode, to : Runtime]
  BY <1>2 DEF _apply_route, SessionAfter, Place, Mode
<1>3. CASE route \in [path : {"history"}, to : {None}]
  BY <1>3 DEF _apply_route, SessionAfter, Place, Mode
<1>4. QED BY <1>1, <1>2, <1>3 DEF Route

\* Every route that _navigate takes sends tells the phone of the session it leaves.
LEMMA Navigated ==
  ASSUME BackgroundInv, NEW route \in Route, _navigate(route) PROVE BackgroundInv'
<1> DEFINE overlapped == {[c EXCEPT !.alone = FALSE] : c \in calls}
<1>0. BackgroundTypes
  BY DEF BackgroundInv
<1>1. where' \in Place /\ where'.session = SessionAfter(route, where.session)
  BY <1>0, RouteApplied DEF _navigate, BackgroundTypes
<1>2. /\ echoes' \in Seq(Route) /\ echoes' # << >>
      /\ Len(echoes') = Len(echoes) + 1 /\ echoes'[Len(echoes')] = route
  <2>1. echoes' = Append(echoes, route)
    BY DEF _navigate
  <2>2. /\ Append(echoes, route) \in Seq(Route) /\ Append(echoes, route) # << >>
        /\ Len(Append(echoes, route)) = Len(echoes) + 1
        /\ Append(echoes, route)[Len(echoes) + 1] = route
    BY <1>0, AppendProperties DEF BackgroundTypes
  <2>3. QED BY <2>1, <2>2
<1>3. ToSession' = where'.session
  BY <1>1, <1>2 DEF ToSession, SessionAfter
<1>4. /\ wakelock' = (where'.session # None) /\ UNCHANGED <<fgs, service, foreground>>
      /\ tangled' = (tangled \/ calls # {})
      /\ calls' = overlapped \union IF Needed(where'.session)
                    THEN {[for |-> where'.session, sent |-> FALSE, alone |-> calls = {}]} ELSE {}
  BY DEF _navigate, Tells
<1>5. where'.session \in Runtime \union {None}
  BY <1>1 DEF Place
<1>6. followed' \in BOOLEAN
  BY <1>0 DEF _navigate, BackgroundTypes
<1>7. /\ overlapped \in SUBSET Call /\ \A c \in overlapped : ~c.alone
      /\ calls = {} <=> overlapped = {}
  BY <1>0 DEF BackgroundTypes, Call
<1> HIDE DEF overlapped
<1>a. PICK new : new = [for |-> where'.session, sent |-> FALSE, alone |-> calls = {}]
  OBVIOUS
<1>b. new \in Call /\ new.for = where'.session /\ ~new.sent /\ (new.alone => calls = {})
  BY <1>5, <1>a DEF Call
<1>c. \A c \in calls' : c \in overlapped \/ (Needed(where'.session) /\ c = new)
  BY <1>4, <1>a
<1>d. tangled' \in BOOLEAN /\ (tangled' <=> tangled \/ calls # {})
  BY <1>4
<1>8. BackgroundTypes'
  <2>1. calls' \in SUBSET Call
    BY <1>7, <1>b, <1>c
  <2>2. foreground' \in BOOLEAN /\ wakelock' \in BOOLEAN /\ service' \in Runtime \union {None}
        /\ fgs' \in Runtime \union {None}
    BY <1>0, <1>4 DEF BackgroundTypes
  <2>3. QED BY <1>1, <1>2, <1>6, <1>d, <2>1, <2>2 DEF BackgroundTypes
<1>9. FollowedHistoryIsAlone'
  <2>1. CASE route.path = "history" /\ followed'
    <3>1. echoes = << >>
      BY <2>1 DEF _navigate
    <3>2. QED BY <1>2, <3>1 DEF FollowedHistoryIsAlone
  <2>2. QED BY <1>2, <2>1 DEF FollowedHistoryIsAlone
<1>10. WakelockFollows'
  BY <1>3, <1>4 DEF WakelockFollows
<1>11. CASE calls = {}
  <2>1. CASE Needed(where'.session)
    <3>1. calls' = {new} /\ new.alone
      BY <1>4, <1>7, <1>11, <1>a, <2>1
    <3>2. CallsFollow' /\ ServiceFollows'
      BY <1>3, <1>b, <3>1 DEF CallsFollow, ServiceFollows
    <3>3. QED BY <1>8, <1>9, <1>10, <3>2 DEF BackgroundInv
  <2>2. CASE ~Needed(where'.session)
    <3>1. calls' = {} /\ fgs' = where'.session
      BY <1>4, <1>7, <1>11, <2>2 DEF Needed
    <3>2. tangled' = tangled
      BY <1>0, <1>4, <1>11 DEF BackgroundTypes
    <3>3. CallsFollow' /\ ServiceFollows'
      BY <1>3, <1>4, <1>11, <3>1, <3>2 DEF CallsFollow, ServiceFollows, BackgroundInv
    <3>4. QED BY <1>8, <1>9, <1>10, <3>3 DEF BackgroundInv
  <2>3. QED BY <2>1, <2>2
<1>12. CASE calls # {}
  <2>1. tangled' /\ \A c \in calls' : ~c.alone
    BY <1>7, <1>12, <1>b, <1>c, <1>d
  <2>2. QED BY <1>8, <1>9, <1>10, <2>1 DEF BackgroundInv, CallsFollow, ServiceFollows
<1>13. QED BY <1>11, <1>12

\* A route that comes back leaves the session to come as it was.
LEMMA RouteCameBack ==
  ASSUME BackgroundInv, _on_route_change PROVE BackgroundInv'
<1>0. BackgroundTypes /\ echoes # << >> /\ UNCHANGED <<foreground, phone, followed>>
  BY DEF BackgroundInv, _on_route_change
<1>1. /\ Head(echoes) \in Route /\ Len(echoes) \in Nat /\ Len(echoes) >= 1
      /\ Head(echoes) = echoes[1]
  BY <1>0, HeadTailProperties, EmptySeq DEF BackgroundTypes
<1>2. /\ echoes' \in Seq(Route) /\ Len(echoes') = Len(echoes) - 1
      /\ \A i \in 1 .. Len(echoes') : echoes'[i] = echoes[i + 1]
  BY <1>0, HeadTailProperties DEF BackgroundTypes, _on_route_change
<1>3. where' \in Place /\ where'.session = SessionAfter(echoes[1], where.session)
  BY <1>0, <1>1, RouteApplied DEF _on_route_change, BackgroundTypes
<1>4. echoes' = << >> <=> Len(echoes) = 1
  BY <1>1, <1>2, EmptySeq
<1>5. CASE Len(echoes) = 1
  <2>1. ToSession' = ToSession
    BY <1>0, <1>3, <1>4, <1>5 DEF ToSession
  <2>2. FollowedHistoryIsAlone'
    BY <1>4, <1>5 DEF FollowedHistoryIsAlone
  <2>3. QED BY <1>0, <1>2, <1>3, <2>1, <2>2
            DEF BackgroundInv, BackgroundTypes, WakelockFollows, CallsFollow, ServiceFollows, phone
<1>6. CASE Len(echoes) # 1
  <2>1. echoes' # << >> /\ echoes'[Len(echoes')] = echoes[Len(echoes)]
    BY <1>1, <1>2, <1>4, <1>6
  <2>2. followed => echoes[Len(echoes)].path # "history"
    BY <1>0, <1>6 DEF BackgroundInv, FollowedHistoryIsAlone
  <2>3. followed => ToSession' = ToSession
    BY <1>0, <2>1, <2>2 DEF ToSession, SessionAfter
  <2>4. FollowedHistoryIsAlone'
    BY <1>0, <2>1, <2>2 DEF FollowedHistoryIsAlone
  <2>5. QED BY <1>0, <1>2, <1>3, <2>3, <2>4
            DEF BackgroundInv, BackgroundTypes, WakelockFollows, CallsFollow, ServiceFollows, phone
<1>7. QED BY <1>5, <1>6

\* A call that reaches the phone, returns or raises.
LEMMA CallGoesOn ==
  ASSUME BackgroundInv, NEW c \in calls, Reaches(c) \/ Noted(c) \/ Raises(c) PROVE BackgroundInv'
<1>0. /\ BackgroundTypes /\ c \in Call
      /\ UNCHANGED <<where, echoes, foreground, wakelock, followed>>
      /\ ToSession' = ToSession
  BY DEF BackgroundInv, BackgroundTypes, Reaches, Noted, Raises, ToSession
<1>1. /\ where' \in Place /\ echoes' \in Seq(Route) /\ foreground' \in BOOLEAN
      /\ wakelock' \in BOOLEAN /\ followed' \in BOOLEAN
      /\ FollowedHistoryIsAlone' /\ WakelockFollows'
  BY <1>0 DEF BackgroundInv, BackgroundTypes, FollowedHistoryIsAlone, WakelockFollows
<1>2. \A d \in calls : d.alone => d = c /\ calls = {c}
  BY DEF BackgroundInv, CallsFollow
<1>3. CASE Reaches(c)
  <2>1. PICK s : s = [c EXCEPT !.sent = TRUE]
    OBVIOUS
  <2>2. s \in Call /\ s.for = c.for /\ s.alone = c.alone /\ s.sent
    BY <1>0, <2>1 DEF Call
  <2>3. /\ service' = c.for /\ calls' = (calls \ {c}) \union {s} /\ UNCHANGED <<fgs, tangled>>
    BY <1>3, <2>1 DEF Reaches
  <2>4. BackgroundTypes'
    BY <1>0, <1>1, <2>2, <2>3 DEF BackgroundTypes, Call
  <2>5. CallsFollow' /\ ServiceFollows'
    BY <1>0, <1>2, <2>2, <2>3 DEF BackgroundInv, CallsFollow, ServiceFollows
  <2>6. QED BY <1>1, <2>4, <2>5 DEF BackgroundInv
<1>4. CASE Noted(c)
  <2>1. /\ c.sent /\ fgs' = c.for /\ calls' = calls \ {c} /\ UNCHANGED service
        /\ tangled' = (tangled /\ ~c.alone)
    BY <1>4 DEF Noted
  <2>2. BackgroundTypes'
    BY <1>0, <1>1, <2>1 DEF BackgroundTypes, Call
  <2>3. CASE c.alone
    BY <1>0, <1>1, <1>2, <2>1, <2>2, <2>3 DEF BackgroundInv, CallsFollow, ServiceFollows
  <2>4. CASE ~c.alone
    BY <1>0, <1>1, <1>2, <2>1, <2>2, <2>4 DEF BackgroundInv, CallsFollow, ServiceFollows
  <2>5. QED BY <2>3, <2>4
<1>5. CASE Raises(c)
  <2>1. /\ calls' = calls \ {c} /\ UNCHANGED service /\ tangled'
        /\ fgs' \in Runtime \union {None}
    BY <1>0, <1>5 DEF Raises, BackgroundTypes
  <2>2. BackgroundTypes'
    BY <1>0, <1>1, <1>5, <2>1 DEF BackgroundTypes, Raises
  <2>3. QED BY <1>0, <1>1, <1>2, <2>1, <2>2 DEF BackgroundInv, CallsFollow, ServiceFollows
<1>6. QED BY <1>3, <1>4, <1>5

LEMMA BackgroundStep == BackgroundInv /\ [BackgroundNext]_backgroundVars => BackgroundInv'
<1> SUFFICES ASSUME BackgroundInv, [BackgroundNext]_backgroundVars PROVE BackgroundInv'
  OBVIOUS
<1>0. BackgroundTypes
  BY DEF BackgroundInv
<1>1. ASSUME _open_session \/ _close_session \/ _open_history \/ _navigate_tab \/ _notification_tap
      PROVE \E route \in Route : _navigate(route)
  <2>1. ASSUME NEW n \in Runtime, NEW m \in Opening PROVE [path |-> m, to |-> n] \in Route
    BY BackgroundAssumption DEF Route
  <2>2. ASSUME NEW t \in Section PROVE [path |-> "tab", to |-> t] \in Route
    BY DEF Route
  <2>3. Gone \in Route /\ [path |-> "history", to |-> None] \in Route
    BY RoutesAssumption DEF Route, Gone
  <2>4. service # None => [path |-> "notebook", to |-> service] \in Route
    BY <1>0 DEF BackgroundTypes, Route, Mode
  <2>5. QED BY <1>1, <2>1, <2>2, <2>3, <2>4
            DEF _open_session, _close_session, _open_history, _navigate_tab, _notification_tap
<1>2. CASE DeepLink
  <2>1. PICK route \in Route : where' = _apply_route(where, route)
    BY <1>2 DEF DeepLink
  <2>2. where' \in Place /\ followed' = FALSE /\ UNCHANGED <<echoes, foreground, phone>>
    BY <1>0, <1>2, <2>1, RouteApplied DEF DeepLink, BackgroundTypes
  <2>3. QED BY <1>0, <2>2 DEF BackgroundInv, BackgroundTypes, FollowedHistoryIsAlone,
                              WakelockFollows, CallsFollow, ServiceFollows, phone
<1>3. CASE _on_lifecycle_change
  <2>1. /\ foreground' = ~foreground /\ wakelock' = (foreground' /\ where.session # None)
        /\ followed' = (followed /\ echoes = << >>)
        /\ UNCHANGED <<where, echoes, fgs, service, calls, tangled>>
    BY <1>3 DEF _on_lifecycle_change
  <2>2. ToSession' = ToSession /\ (followed' => followed /\ ToSession = where.session)
    BY <2>1 DEF ToSession
  <2>3. BackgroundTypes'
    BY <1>0, <2>1 DEF BackgroundTypes
  <2>4. WakelockFollows' /\ FollowedHistoryIsAlone'
    BY <2>1, <2>2 DEF WakelockFollows, FollowedHistoryIsAlone
  <2>5. QED BY <2>1, <2>2, <2>3, <2>4 DEF BackgroundInv, CallsFollow, ServiceFollows
<1>4. CASE _exit_app
  <2>1. /\ where' = Start /\ echoes' = << >> /\ foreground' = TRUE /\ wakelock' = FALSE
        /\ fgs' = None /\ service' = None /\ calls' = {} /\ tangled' = FALSE /\ followed' = TRUE
    BY <1>4 DEF _exit_app
  <2>2. BackgroundTypes'
    BY <2>1, StartIsAPlace DEF BackgroundTypes
  <2>3. QED BY <2>1, <2>2, StartIsAPlace
            DEF BackgroundInv, FollowedHistoryIsAlone, WakelockFollows, ToSession, CallsFollow, ServiceFollows
<1>5. CASE UNCHANGED backgroundVars
  BY <1>0, <1>5 DEF BackgroundInv, BackgroundTypes, FollowedHistoryIsAlone, WakelockFollows,
                    ToSession, CallsFollow, ServiceFollows, backgroundVars, phone
<1>6. QED BY <1>1, <1>2, <1>3, <1>4, <1>5, Navigated, RouteCameBack, CallGoesOn DEF BackgroundNext

\* Whatever is opened, left, tapped and backgrounded, and however the routes'
\* echoes and the service's calls interleave, the wakelock and the notification
\* are the open session's once all are back, with the exceptions that
\* PhoneFollowsSession names (main.py _navigate, session_notify.py).
THEOREM PhoneKeepsFollowing == BackgroundSpec => []PhoneFollowsSession
<1>1. BackgroundInv => PhoneFollowsSession
  BY DEF BackgroundInv, WakelockFollows, ServiceFollows, ToSession, PhoneFollowsSession
<1>2. QED BY BackgroundInitially, BackgroundStep, <1>1, PTL DEF BackgroundSpec

----------------------------------------------------------------------------
(* Sessions *)

\* What may stand under a name: a record of a machine that was assigned, and
\* under the name of a session of the app one of its own machine.
Right(n, r, machines) == r # None => r.ep \in machines /\ (n \in Machine => r.ep = n)

RightRecords(f, machines) ==
  /\ f \in [Name -> Record \union {None}]
  /\ \A n \in Name : Right(n, f[n], machines)

\* What a listing knows: a machine's name has a record, and what it will remove
\* are no sessions of the app but those whose machine is gone.
ListingIsRight(o, live, machines) ==
  /\ o.pc \in {"snap", "ask", "put"}
  /\ o.pc = "put" =>
       /\ o.left \subseteq machines
       /\ \A m \in Machine : o.byep[m] # None =>
            o.local[o.byep[m]] # None /\ (o.byep[m] \in Machine => o.byep[m] = m)
       /\ \A n \in o.gone \intersect Machine : n \in machines \ live

\* What another operation knows: the place says what it has at hand.
CopyIsRight(o, live, machines) ==
  /\ o.pc \in {"get", "look", "put", "drop", "mark", "run", "unmark", "end", "unassign", "remove"}
  /\ o.name \in Name
  /\ o.pc \in {"mark", "run", "unmark", "unassign", "remove"} \/ o.stage \in {"reheal", "last"} => o.s # None
  /\ o.pc \in {"look", "put"} => o.local[o.name] # None
  /\ o.kind # "exec" => o.pc # "run" /\ o.stage \in {"first", "heal"}
  /\ o.pc \in {"drop", "remove"} /\ o.name \in Machine => o.name \in machines \ live

Sound(o, live, machines) ==
  /\ o \in Operation
  /\ RightRecords(o.local, machines) /\ Right(o.name, o.s, machines)
  /\ o.kind = "new" => o.pc = "put" /\ o.name \in machines
  /\ o.kind = "list" => ListingIsRight(o, live, machines)
  /\ o.kind \in Kinds => CopyIsRight(o, live, machines)
  /\ o.kind = "none" => o = NoOp

SessionsInv ==
  /\ SessionsTypeOK /\ \A m \in Machine : tok[m] <= renewals
  /\ RightRecords(store, born)
  /\ \A p \in Proc : Sound(op[p], assigned, born)
  /\ CreatedStaysListed

LEMMA NamesAndNone ==
  /\ Machine \subseteq Name /\ None \notin Name /\ None \notin Machine
  /\ Open \in Name /\ KeepAlive \in Proc /\ User \subseteq Proc
  /\ \A k \in Nat \ {0} : k \notin Machine
BY SessionsAssumption DEF Name, Proc

LEMMA PartIsRight ==
  ASSUME NEW machines, NEW f, RightRecords(f, machines), NEW S
  PROVE  RightRecords(Part(f, S), machines)
<1>1. Part(f, S) \in [Name -> Record \union {None}]
  BY DEF RightRecords, Part
<1>2. \A n \in Name : Part(f, S)[n] = f[n] \/ Part(f, S)[n] = None
  BY DEF RightRecords, Part
<1>3. QED BY <1>1, <1>2 DEF RightRecords, Right

LEMMA PutIsRight ==
  ASSUME NEW machines, NEW f, RightRecords(f, machines), NEW n,
         NEW r \in Record \union {None}, Right(n, r, machines)
  PROVE  RightRecords([f EXCEPT ![n] = r], machines)
BY DEF RightRecords

\* Machines go and come anew, so what an operation knows stays so.
LEMMA SoundStays ==
  ASSUME NEW o, NEW live, NEW machines, NEW live2, NEW machines2,
         Sound(o, live, machines), machines \subseteq machines2, live2 \intersect machines \subseteq live
  PROVE  Sound(o, live2, machines2)
<1>1. RightRecords(o.local, machines2) /\ Right(o.name, o.s, machines2)
  BY DEF Sound, RightRecords, Right
<1>2. ListingIsRight(o, live, machines) => ListingIsRight(o, live2, machines2)
  BY DEF ListingIsRight
<1>3. CopyIsRight(o, live, machines) => CopyIsRight(o, live2, machines2)
  BY DEF CopyIsRight
<1>4. QED BY <1>1, <1>2, <1>3 DEF Sound

Listing == [NoOp EXCEPT !.kind = "list", !.pc = "snap"]

LEMMA IdleIsSound ==
  ASSUME NEW live, NEW machines
  PROVE  NoOp \in Operation /\ Sound(NoOp, live, machines) /\ Sound(Listing, live, machines)
<1>1. NoRecords \in [Name -> Record \union {None}] /\ NoNames \in [Machine -> Name \union {None}]
  BY DEF NoRecords, NoNames
<1>2. NoOp \in Operation /\ Listing \in Operation
  BY <1>1 DEF NoOp, Listing, Operation, Heals
<1>3. RightRecords(NoRecords, machines)
  BY <1>1 DEF RightRecords, Right, NoRecords
<1>4. Right(None, None, machines)
  BY DEF Right
<1>5. Sound(NoOp, live, machines)
  BY <1>2, <1>3, <1>4 DEF Sound, NoOp, Kinds
<1>6. ListingIsRight(Listing, live, machines)
  BY DEF ListingIsRight, Listing, NoOp, NoNames
<1>7. Sound(Listing, live, machines)
  BY <1>2, <1>3, <1>4, <1>6 DEF Sound, Listing, NoOp, Kinds
<1>8. QED BY <1>2, <1>5, <1>7

LEMMA LoadedIsSound ==
  ASSUME NEW live, NEW machines, NEW o, Sound(o, live, machines), o.kind \in Kinds,
         NEW s \in Record, Right(o.name, s, machines)
  PROVE  /\ Sound(Loaded(o, s), live, machines)
         /\ Sound([Loaded(o, s) EXCEPT !.local = NoRecords], live, machines)
<1>1. s # None /\ NoRecords \in [Name -> Record \union {None}] /\ RightRecords(NoRecords, machines)
  BY RecordAssumption DEF RightRecords, Right, NoRecords
<1>2. o \in Operation /\ CopyIsRight(o, live, machines)
  BY DEF Sound
<1>3. ASSUME NEW q \in {"run", "unassign", "mark"}, q = "run" => o.kind = "exec",
             NEW z, z = [o EXCEPT !.pc = q, !.s = s]
      PROVE  Sound(z, live, machines) /\ Sound([z EXCEPT !.local = NoRecords], live, machines)
  <2> DEFINE z2 == [z EXCEPT !.local = NoRecords]
  <2>1. /\ z \in Operation /\ z.kind = o.kind /\ z.name = o.name /\ z.s = s /\ z.local = o.local
        /\ z.pc = q /\ z.stage = o.stage
    BY <1>2, <1>3 DEF Operation
  <2>2. /\ z2 \in Operation /\ z2.kind = o.kind /\ z2.name = o.name /\ z2.s = s /\ z2.local = NoRecords
        /\ z2.pc = q /\ z2.stage = o.stage
    BY <1>1, <2>1 DEF Operation
  <2> HIDE DEF z2
  <2>3. Sound(z, live, machines) /\ Sound(z2, live, machines)
    BY <1>1, <1>2, <1>3, <2>1, <2>2 DEF Sound, CopyIsRight, Kinds
  <2>4. QED BY <2>3 DEF z2
<1>4. CASE o.stage = "last"
  <2>1. o.kind = "exec" /\ o.s # None /\ Loaded(o, s) = [o EXCEPT !.pc = "unmark"]
    BY <1>2, <1>4 DEF CopyIsRight, Loaded
  <2> DEFINE z1 == [o EXCEPT !.pc = "unmark"]
             z2 == [z1 EXCEPT !.local = NoRecords]
  <2>2. /\ z1 \in Operation /\ z1.kind = o.kind /\ z1.name = o.name /\ z1.s = o.s /\ z1.local = o.local
        /\ z1.pc = "unmark" /\ z1.stage = o.stage
    BY <1>2 DEF Operation
  <2>3. /\ z2 \in Operation /\ z2.kind = o.kind /\ z2.name = o.name /\ z2.s = o.s /\ z2.local = NoRecords
        /\ z2.pc = "unmark" /\ z2.stage = o.stage
    BY <1>1, <1>2 DEF Operation
  <2>4. Sound(z1, live, machines) /\ Sound(z2, live, machines)
    <3> HIDE DEF z1, z2
    <3>1. QED BY <1>1, <1>2, <1>4, <2>1, <2>2, <2>3 DEF Sound, CopyIsRight, Kinds
  <2>5. Loaded(o, s) = z1
    BY <2>1
  <2> HIDE DEF z1
  <2>6. QED BY <2>4, <2>5 DEF z2
<1>5. CASE o.stage = "reheal"
  <2>1. o.kind = "exec" /\ Loaded(o, s) = [o EXCEPT !.pc = "run", !.s = s]
    BY <1>2, <1>5 DEF CopyIsRight, Loaded
  <2>2. QED BY <1>3, <2>1
<1>6. CASE o.stage \notin {"last", "reheal"} /\ o.kind = "refresh"
  <2>1. Loaded(o, s) = NoOp
    BY <1>6 DEF Loaded
  <2>2. [NoOp EXCEPT !.local = NoRecords] = NoOp
    <3>1. NoOp \in Operation /\ NoOp.local = NoRecords
      BY IdleIsSound DEF NoOp
    <3>2. \A z \in Operation : [z EXCEPT !.local = z.local] = z
      BY DEF Operation
    <3>3. QED BY <3>1, <3>2
  <2>3. QED BY <2>1, <2>2, IdleIsSound
<1>7. CASE o.stage \notin {"last", "reheal"} /\ o.kind = "stop"
  <2>1. Loaded(o, s) = [o EXCEPT !.pc = "unassign", !.s = s]
    BY <1>7 DEF Loaded
  <2>2. QED BY <1>3, <2>1
<1>8. CASE o.stage \notin {"last", "reheal"} /\ o.kind \notin {"refresh", "stop"}
  <2>1. Loaded(o, s) = [o EXCEPT !.pc = "mark", !.s = s]
    BY <1>8 DEF Loaded
  <2>2. QED BY <1>3, <2>1
<1>9. QED BY <1>4, <1>5, <1>6, <1>7, <1>8

LEMMA NotLoadedIsSound ==
  ASSUME NEW live, NEW machines, NEW o, Sound(o, live, machines), o.kind \in Kinds
  PROVE  /\ Sound(NotLoaded(o), live, machines)
         /\ Sound([NotLoaded(o) EXCEPT !.local = NoRecords], live, machines)
         /\ Sound([NotLoaded(o) EXCEPT !.local = NoRecords, !.lost = TRUE], live, machines)
<1>1. NoRecords \in [Name -> Record \union {None}] /\ RightRecords(NoRecords, machines)
  BY DEF RightRecords, Right, NoRecords
<1>2. o \in Operation /\ CopyIsRight(o, live, machines)
  BY DEF Sound
<1>3. ASSUME NEW z, z \in Operation, z.kind = o.kind, z.name = o.name, z.s = o.s,
             z.local \in {o.local, NoRecords},
             \/ z.pc = "end" /\ z.stage = o.stage
             \/ z.pc = "get" /\ z.stage = "last" /\ o.stage = "reheal"
      PROVE  Sound(z, live, machines)
  BY <1>1, <1>2, <1>3 DEF Sound, CopyIsRight, Kinds
<1>5. NotLoaded(o) = IF o.stage = "reheal" THEN [o EXCEPT !.pc = "get", !.stage = "last", !.failed = TRUE]
                     ELSE [o EXCEPT !.pc = "end", !.failed = o.failed \/ o.stage # "last"]
  BY DEF NotLoaded
<1> DEFINE f == o.failed \/ o.stage # "last"
<1>6. f \in BOOLEAN
  OBVIOUS
<1> HIDE DEF f
<1>7. CASE o.stage = "reheal"
  <2> DEFINE z1 == [o EXCEPT !.pc = "get", !.stage = "last", !.failed = TRUE]
             z2 == [z1 EXCEPT !.local = NoRecords]
             z3 == [z1 EXCEPT !.local = NoRecords, !.lost = TRUE]
  <2>1. /\ z1 \in Operation /\ z1.kind = o.kind /\ z1.name = o.name /\ z1.s = o.s /\ z1.local = o.local
        /\ z1.pc = "get" /\ z1.stage = "last"
    BY <1>2 DEF Operation
  <2>2. /\ z2 \in Operation /\ z2.kind = o.kind /\ z2.name = o.name /\ z2.s = o.s /\ z2.local = NoRecords
        /\ z2.pc = "get" /\ z2.stage = "last"
    BY <1>1, <1>2 DEF Operation
  <2>3. /\ z3 \in Operation /\ z3.kind = o.kind /\ z3.name = o.name /\ z3.s = o.s /\ z3.local = NoRecords
        /\ z3.pc = "get" /\ z3.stage = "last"
    BY <1>1, <1>2 DEF Operation
  <2>4. NotLoaded(o) = z1
    BY <1>5, <1>7
  <2> HIDE DEF z1, z2, z3
  <2>5. Sound(z1, live, machines) /\ Sound(z2, live, machines) /\ Sound(z3, live, machines)
    BY <1>3, <1>7, <2>1, <2>2, <2>3
  <2>6. QED BY <2>4, <2>5 DEF z2, z3
<1>8. CASE o.stage # "reheal"
  <2> DEFINE z1 == [o EXCEPT !.pc = "end", !.failed = f]
             z2 == [z1 EXCEPT !.local = NoRecords]
             z3 == [z1 EXCEPT !.local = NoRecords, !.lost = TRUE]
  <2>1. /\ z1 \in Operation /\ z1.kind = o.kind /\ z1.name = o.name /\ z1.s = o.s /\ z1.local = o.local
        /\ z1.pc = "end" /\ z1.stage = o.stage
    BY <1>2, <1>6 DEF Operation
  <2>2. /\ z2 \in Operation /\ z2.kind = o.kind /\ z2.name = o.name /\ z2.s = o.s /\ z2.local = NoRecords
        /\ z2.pc = "end" /\ z2.stage = o.stage
    BY <1>1, <1>2, <1>6 DEF Operation
  <2>3. /\ z3 \in Operation /\ z3.kind = o.kind /\ z3.name = o.name /\ z3.s = o.s /\ z3.local = NoRecords
        /\ z3.pc = "end" /\ z3.stage = o.stage
    BY <1>1, <1>2, <1>6 DEF Operation
  <2>4. NotLoaded(o) = z1
    BY <1>5, <1>8 DEF f
  <2> HIDE DEF z1, z2, z3
  <2>5. Sound(z1, live, machines) /\ Sound(z2, live, machines) /\ Sound(z3, live, machines)
    BY <1>3, <2>1, <2>2, <2>3
  <2>6. QED BY <2>4, <2>5 DEF z2, z3
<1>9. QED BY <1>7, <1>8

LEMMA SessionsInitially == Init => SessionsInv
<1> SUFFICES ASSUME Init PROVE SessionsInv
  OBVIOUS
<1>1. Open \in Machine \ Foreign /\ [ep |-> Open, tok |-> 0, running |-> FALSE] \in Record
  BY SessionsAssumption DEF Record
<1>2. SessionsTypeOK
  <2>1. store \in [Name -> Record \union {None}]
    BY <1>1 DEF Init
  <2>2. op \in [Proc -> Operation]
    BY IdleIsSound DEF Init
  <2>3. assigned \subseteq born /\ born \subseteq Machine /\ tok \in [Machine -> 0 .. MaxRenewals]
    BY <1>1, SessionsAssumption DEF Init
  <2>4. renewals \in 0 .. MaxRenewals /\ ops \in 0 .. MaxOps /\ raced \subseteq Proc
    BY SessionsAssumption DEF Init
  <2>5. QED BY <2>1, <2>2, <2>3, <2>4 DEF SessionsTypeOK
<1>3. RightRecords(store, born) /\ CreatedStaysListed
  <2>1. \A n \in born : n = Open /\ store[n] = [ep |-> Open, tok |-> 0, running |-> FALSE]
    BY NamesAndNone DEF Init
  <2>2. \A n \in Name \ born : store[n] = None
    BY DEF Init
  <2>3. RightRecords(store, born)
    BY <1>1, <1>2, <2>1, <2>2 DEF RightRecords, Right, SessionsTypeOK
  <2>4. \A m \in assigned \ Foreign : store[m] # None /\ store[m].ep = m
    <3>1. assigned = born
      BY DEF Init
    <3>2. ASSUME NEW n \in born PROVE store[n] \in Record /\ store[n].ep = n
      <4>1. PICK r \in Record : r = [ep |-> Open, tok |-> 0, running |-> FALSE]
        BY <1>1
      <4>2. r.ep = Open
        BY <4>1
      <4>3. QED BY <2>1, <4>1, <4>2
    <3>3. QED BY <3>1, <3>2, RecordAssumption
  <2>5. CreatedStaysListed
    BY <2>4 DEF CreatedStaysListed, Exists
  <2>6. QED BY <2>3, <2>5
<1>4. \A p \in Proc : Sound(op[p], assigned, born)
  BY IdleIsSound DEF Init
<1>5. \A m \in Machine : tok[m] <= renewals
  BY DEF Init
<1>6. QED BY <1>2, <1>3, <1>4, <1>5 DEF SessionsInv

\* One process goes on; the others know what they knew.
LEMMA OneGoesOn ==
  ASSUME SessionsInv, NEW p \in Proc, NEW o, GoTo(p, o), Sound(o, assigned', born'),
         born \subseteq born', assigned' \intersect born \subseteq assigned,
         assigned' \subseteq born', born' \subseteq Machine,
         UNCHANGED <<tok, renewals>>, ops' \in 0 .. MaxOps, raced' \subseteq Proc,
         RightRecords(store', born'), CreatedStaysListed'
  PROVE  SessionsInv'
<1>1. op \in [Proc -> Operation] /\ o \in Operation
  BY DEF SessionsInv, SessionsTypeOK, Sound
<1>2. op' \in [Proc -> Operation] /\ op'[p] = o /\ \A q \in Proc \ {p} : op'[q] = op[q]
  BY <1>1 DEF GoTo
<1>3. SessionsTypeOK'
  BY <1>2 DEF SessionsInv, SessionsTypeOK, RightRecords
<1>4. \A q \in Proc \ {p} : Sound(op[q], assigned', born')
  BY SoundStays DEF SessionsInv
<1>5. \A q \in Proc : Sound(op'[q], assigned', born')
  BY <1>2, <1>4
<1>6. QED BY <1>3, <1>5 DEF SessionsInv

\* ... and it writes nothing.
LEMMA GoesOnQuietly ==
  ASSUME SessionsInv, NEW p \in Proc, NEW o, GoTo(p, o), Sound(o, assigned, born), op[p].kind # "new",
         UNCHANGED <<server, store>>, ops' \in 0 .. MaxOps, raced' \subseteq Proc
  PROVE  SessionsInv'
<1>1. \A q \in Proc \ {p} : op'[q] = op[q]
  BY DEF GoTo, SessionsInv, SessionsTypeOK
<1>2. CreatedStaysListed'
  BY <1>1 DEF SessionsInv, CreatedStaysListed, At, Exists, server, Proc
<1>3. QED BY <1>2, OneGoesOn DEF SessionsInv, SessionsTypeOK, server

\* ... or it writes a right record, and removes none of a session that lives.
LEMMA GoesOnWriting ==
  ASSUME SessionsInv, NEW p \in Proc, NEW o, GoTo(p, o), Sound(o, assigned, born),
         UNCHANGED <<server, ops>>,
         NEW n, NEW r \in Record \union {None}, Write(p, n, r), Right(n, r, born),
         r = None /\ n \in Machine => n \notin assigned,
         op[p].kind = "new" => op[p].name = n /\ r # None
  PROVE  SessionsInv'
<1>1. \A q \in Proc \ {p} : op'[q] = op[q]
  BY DEF GoTo, SessionsInv, SessionsTypeOK
<1>2. store' = [store EXCEPT ![n] = r] /\ store \in [Name -> Record \union {None}]
  BY DEF Write, SessionsInv, SessionsTypeOK
<1>3. RightRecords(store', born)
  BY <1>2, PutIsRight DEF SessionsInv
<1>4. ASSUME NEW m \in assigned \ Foreign
      PROVE  \/ \E q \in User : op'[q].kind = "new" /\ op'[q].pc = "put" /\ op'[q].name = m
             \/ store'[m] # None /\ store'[m].ep = m
  <2>0. m \in Name /\ m \in Machine
    BY NamesAndNone DEF SessionsInv, SessionsTypeOK
  <2>1. CASE n = m
    <3>1. r # None /\ store'[m] = r
      BY <1>2, <2>0, <2>1
    <3>2. QED BY <2>0, <2>1, <3>1 DEF Right
  <2>2. CASE n # m
    <3>1. store'[m] = store[m]
      BY <1>2, <2>0, <2>2
    <3>2. (\E q \in User : At(q, "new", "put") /\ op[q].name = m) \/ (Exists(m) /\ store[m].ep = m)
      BY <1>4 DEF SessionsInv, CreatedStaysListed
    <3>3. QED BY <1>1, <2>2, <3>1, <3>2, NamesAndNone DEF At, Exists
  <2>3. QED BY <2>1, <2>2
<1>5. CreatedStaysListed'
  BY <1>4 DEF CreatedStaysListed, At, Exists, server
<1>6. raced' \subseteq Proc
  BY DEF Write, SessionsInv, SessionsTypeOK
<1>7. QED BY <1>3, <1>5, <1>6, OneGoesOn DEF SessionsInv, SessionsTypeOK, server

\* Colab assigns, prunes and renews on its own.
LEMMA ColabStep ==
  ASSUME SessionsInv, NEW m \in Machine, Appears(m) \/ Pruned(m) \/ Renew(m)
  PROVE  SessionsInv'
<1>1. UNCHANGED <<store, op, ops, raced>> /\ born \subseteq born' /\ assigned' \intersect born \subseteq assigned
  BY DEF Appears, Pruned, Renew
<1>2. assigned' \subseteq born' /\ born' \subseteq Machine /\ assigned' \ Foreign \subseteq assigned \ Foreign
  BY DEF Appears, Pruned, Renew, SessionsInv, SessionsTypeOK
<1>3. /\ renewals' \in 0 .. MaxRenewals /\ tok' \in [Machine -> 0 .. MaxRenewals]
      /\ \A x \in Machine : tok'[x] <= renewals'
  <2>1. CASE Renew(m)
    <3>1. renewals' = renewals + 1 /\ renewals < MaxRenewals /\ tok' = [tok EXCEPT ![m] = tok[m] + 1]
      BY <2>1 DEF Renew
    <3>2. \A x \in Machine : tok[x] \in Nat /\ tok[x] <= renewals
      BY DEF SessionsInv, SessionsTypeOK
    <3>3. \A x \in Machine : tok'[x] \in Nat /\ tok'[x] <= renewals'
      BY <3>1, <3>2 DEF SessionsInv, SessionsTypeOK
    <3>4. QED BY <3>1, <3>3, SessionsAssumption DEF SessionsInv, SessionsTypeOK
  <2>2. CASE Appears(m) \/ Pruned(m)
    BY <2>2 DEF Appears, Pruned, SessionsInv, SessionsTypeOK
  <2>3. QED BY <2>1, <2>2
<1>4. SessionsTypeOK'
  BY <1>1, <1>2, <1>3 DEF SessionsInv, SessionsTypeOK
<1>5. \A p \in Proc : Sound(op[p], assigned', born')
  BY <1>1, SoundStays DEF SessionsInv
<1>6. RightRecords(store', born')
  BY <1>1 DEF SessionsInv, RightRecords, Right
<1>7. CreatedStaysListed'
  BY <1>1, <1>2 DEF SessionsInv, CreatedStaysListed, At, Exists
<1>8. QED BY <1>1, <1>3, <1>4, <1>5, <1>6, <1>7 DEF SessionsInv

LEMMA OperationIsSound ==
  ASSUME SessionsInv, NEW p \in Proc
  PROVE  /\ op[p] \in Operation /\ Sound(op[p], assigned, born)
         /\ op[p].kind \in Kinds => CopyIsRight(op[p], assigned, born)
         /\ op[p].kind = "list" => ListingIsRight(op[p], assigned, born)
         /\ op[p].pc \in {"get", "look", "drop", "mark", "run", "unmark", "end", "unassign", "remove"} => op[p].kind \in Kinds
         /\ op[p].kind \in Kinds => op[p].kind \notin {"none", "new", "list"} /\ op[p].name \in Name
<1>1. op[p] \in Operation /\ Sound(op[p], assigned, born)
  BY DEF SessionsInv, SessionsTypeOK
<1>2. op[p].kind \in Kinds \union {"none", "new", "list"}
  BY <1>1 DEF Operation
<1>3. /\ op[p].kind = "none" => op[p].pc = "none"
      /\ op[p].kind = "new" => op[p].pc = "put"
      /\ op[p].kind = "list" => op[p].pc \in {"snap", "ask", "put"}
  BY <1>1 DEF Sound, ListingIsRight, NoOp
<1>4. QED BY <1>1, <1>2, <1>3 DEF Sound, CopyIsRight, Kinds

LEMMA StartsCount ==
  ASSUME SessionsInv, NEW p, UserStarts(p) PROVE ops' \in 0 .. MaxOps /\ p \in Proc /\ op[p] = NoOp
BY SessionsAssumption DEF UserStarts, SessionsInv, SessionsTypeOK, Proc

LEMMA NewSteps ==
  ASSUME SessionsInv, NEW p \in User, NEW m \in Machine, NewSession(p, m) PROVE SessionsInv'
<1> DEFINE o == [NoOp EXCEPT !.kind = "new", !.pc = "put", !.name = m]
<1>1. ops' \in 0 .. MaxOps /\ p \in Proc /\ op[p] = NoOp
  BY StartsCount DEF NewSession
<1>2. /\ m \in Machine \ (Foreign \union born) /\ GoTo(p, o)
      /\ assigned' = assigned \union {m} /\ born' = born \union {m}
      /\ UNCHANGED <<tok, renewals, store, raced>>
  BY DEF NewSession, Same
<1>3. /\ assigned \subseteq born /\ born \subseteq Machine /\ RightRecords(store, born)
      /\ op \in [Proc -> Operation] /\ raced \subseteq Proc
  BY DEF SessionsInv, SessionsTypeOK
<1>4. /\ o \in Operation /\ o.kind = "new" /\ o.pc = "put" /\ o.name = m /\ o.s = None /\ o.local = NoRecords
  BY <1>1, IdleIsSound, NamesAndNone DEF NoOp, Operation
<1>5. RightRecords(NoRecords, born')
  BY DEF RightRecords, Right, NoRecords
<1> HIDE DEF o
<1>6. Sound(o, assigned', born')
  BY <1>2, <1>4, <1>5 DEF Sound, Right, Kinds
<1>7. RightRecords(store', born')
  BY <1>2, <1>3 DEF RightRecords, Right
<1>8. op'[p] = o /\ \A q \in Proc \ {p} : op'[q] = op[q]
  BY <1>1, <1>2, <1>3 DEF GoTo
<1>9. CreatedStaysListed'
  <2>1. \E q \in User : op'[q].kind = "new" /\ op'[q].pc = "put" /\ op'[q].name = m
    BY <1>4, <1>8
  <2>2. ASSUME NEW x \in assigned \ Foreign
        PROVE  \/ \E q \in User : op'[q].kind = "new" /\ op'[q].pc = "put" /\ op'[q].name = x
               \/ store'[x] # None /\ store'[x].ep = x
    <3>1. (\E q \in User : At(q, "new", "put") /\ op[q].name = x) \/ (Exists(x) /\ store[x].ep = x)
      BY <2>2 DEF SessionsInv, CreatedStaysListed
    <3>2. \A q \in User : At(q, "new", "put") => q \in Proc \ {p}
      BY <1>1, NamesAndNone DEF At, NoOp
    <3>3. QED BY <1>2, <1>8, <3>1, <3>2 DEF At, Exists
  <2>3. QED BY <1>2, <2>1, <2>2 DEF CreatedStaysListed, At, Exists
<1>10. QED BY <1>1, <1>2, <1>3, <1>6, <1>7, <1>9, OneGoesOn

LEMMA NewStoredStep ==
  ASSUME SessionsInv, NEW p \in Proc, NewStored(p) PROVE SessionsInv'
<1> DEFINE m == op[p].name
           r == [ep |-> m, tok |-> tok[m], running |-> FALSE]
<1>1. Sound(op[p], assigned, born) /\ op[p].kind = "new" /\ m \in born /\ m \in Machine
  BY OperationIsSound DEF NewStored, At, Sound, SessionsInv, SessionsTypeOK
<1>2. r \in Record
  BY <1>1 DEF Record, SessionsInv, SessionsTypeOK
<1>3. Right(m, r, born) /\ r # None
  BY <1>1, <1>2, RecordAssumption DEF Right
<1>4. Write(p, m, r) /\ GoTo(p, NoOp) /\ UNCHANGED <<server, ops>>
  BY DEF NewStored
<1>5. Sound(NoOp, assigned, born)
  BY IdleIsSound
<1> HIDE DEF r
<1>6. QED BY <1>2, <1>3, <1>4, <1>5, GoesOnWriting

LEMMA ListSteps ==
  ASSUME SessionsInv, NEW p \in Proc, List(p) \/ Snapshot(p) \/ ListFails(p) PROVE SessionsInv'
<1>0. ops \in 0 .. MaxOps /\ raced \subseteq Proc
  BY DEF SessionsInv, SessionsTypeOK
<1>1. CASE List(p)
  <2>1. ops' \in 0 .. MaxOps /\ op[p] = NoOp /\ GoTo(p, Listing) /\ UNCHANGED <<server, store, raced>>
    BY <1>1, StartsCount DEF List, Listing, Same
  <2>2. op[p].kind # "new" /\ raced' \subseteq Proc
    BY <1>0, <2>1 DEF NoOp
  <2>3. QED BY <2>1, <2>2, IdleIsSound, GoesOnQuietly
<1>2. CASE Snapshot(p)
  <2> DEFINE o == [op[p] EXCEPT !.pc = "ask", !.local = store]
  <2>1. op[p].kind = "list" /\ op[p].pc = "snap" /\ GoTo(p, o) /\ UNCHANGED <<server, ops, store, raced>>
    BY <1>2 DEF Snapshot, At, Same
  <2>2. /\ op[p] \in Operation /\ Sound(op[p], assigned, born)
        /\ store \in [Name -> Record \union {None}] /\ RightRecords(store, born)
    BY OperationIsSound DEF SessionsInv, SessionsTypeOK
  <2>3. /\ o \in Operation /\ o.kind = "list" /\ o.pc = "ask" /\ o.local = store
        /\ o.s = op[p].s /\ o.name = op[p].name
    BY <2>1, <2>2 DEF Operation
  <2> HIDE DEF o
  <2>4. Sound(o, assigned, born)
    BY <2>2, <2>3 DEF Sound, ListingIsRight, Kinds
  <2>5. QED BY <1>0, <2>1, <2>4, GoesOnQuietly
<1>3. CASE ListFails(p)
  <2>1. op[p].kind # "new" /\ GoTo(p, NoOp) /\ UNCHANGED <<server, ops, store, raced>>
    BY <1>3 DEF ListFails, At, Same
  <2>2. QED BY <1>0, <2>1, IdleIsSound, GoesOnQuietly
<1>4. QED BY <1>1, <1>2, <1>3

LEMMA AssignmentsStep ==
  ASSUME SessionsInv, NEW p \in Proc, Assignments(p) PROVE SessionsInv'
<1>1. /\ op[p] \in Operation /\ Sound(op[p], assigned, born) /\ RightRecords(op[p].local, born)
      /\ op[p].kind = "list" /\ ops \in 0 .. MaxOps /\ raced \subseteq Proc /\ assigned \subseteq born
      /\ born \subseteq Machine
  BY OperationIsSound DEF Assignments, At, Sound, SessionsInv, SessionsTypeOK
<1>2. PICK f \in Known(op[p].local) :
        GoTo(p, [op[p] EXCEPT !.pc = "put", !.byep = Part(f, assigned), !.left = assigned,
                   !.local = Part(@, {f[m] : m \in assigned}),
                   !.gone = {n \in Name : op[p].local[n] # None /\ op[p].local[n].ep \notin assigned}])
  BY DEF Assignments
<1> DEFINE local == Part(op[p].local, {f[m] : m \in assigned})
           byep == Part(f, assigned)
           gone == {n \in Name : op[p].local[n] # None /\ op[p].local[n].ep \notin assigned}
           o == [op[p] EXCEPT !.pc = "put", !.byep = byep, !.left = assigned, !.local = local, !.gone = gone]
<1>3. /\ f \in [Machine -> Name \union {None}]
      /\ \A m \in Machine : f[m] # None => op[p].local[f[m]] # None /\ op[p].local[f[m]].ep = m
  BY DEF Known
<1>4. RightRecords(local, born)
  BY <1>1, PartIsRight
<1>5. /\ byep \in [Machine -> Name \union {None}]
      /\ \A m \in Machine : byep[m] # None => m \in assigned /\ byep[m] = f[m]
  BY <1>3 DEF Part
<1>6. \A m \in assigned : f[m] # None => local[f[m]] = op[p].local[f[m]]
  BY <1>1, <1>3 DEF Part, RightRecords
<1>7. gone \subseteq Name /\ \A n \in gone \intersect Machine : n \in born \ assigned
  BY <1>1 DEF RightRecords, Right
<1>8. \A m \in Machine : byep[m] # None => local[byep[m]] # None /\ (byep[m] \in Machine => byep[m] = m)
  BY <1>1, <1>3, <1>5, <1>6 DEF RightRecords, Right
<1>9. GoTo(p, o)
  BY <1>2
<1> HIDE DEF local, byep, gone
<1>10. /\ o \in Operation /\ o.kind = "list" /\ o.pc = "put" /\ o.local = local /\ o.byep = byep
       /\ o.left = assigned /\ o.gone = gone /\ o.s = op[p].s /\ o.name = op[p].name
  BY <1>1, <1>4, <1>5, <1>7 DEF Operation, RightRecords
<1> HIDE DEF o
<1>11. ListingIsRight(o, assigned, born)
  BY <1>1, <1>7, <1>8, <1>10 DEF ListingIsRight
<1>12. Sound(o, assigned, born)
  BY <1>1, <1>4, <1>10, <1>11 DEF Sound, Kinds
<1>13. UNCHANGED <<server, store, ops, raced>>
  BY DEF Assignments, Same
<1>14. QED BY <1>1, <1>9, <1>12, <1>13, GoesOnQuietly

LEMMA ListPutStep ==
  ASSUME SessionsInv, NEW p \in Proc, NEW m \in Machine, ListPut(p, m) PROVE SessionsInv'
<1> DEFINE z == op[p]
           n == IF z.byep[m] = None THEN z.count + 1 ELSE z.byep[m]
           r == IF z.byep[m] = None THEN [ep |-> m, tok |-> tok[m], running |-> FALSE]
                ELSE [z.local[n] EXCEPT !.tok = tok[m]]
           rest == z.left \ {m}
           local == Part([z.local EXCEPT ![n] = r], {z.byep[x] : x \in rest})
           byep == Part(z.byep, rest)
           count == IF z.byep[m] = None THEN z.count + 1 ELSE z.count
           o == [z EXCEPT !.left = rest, !.byep = byep, !.gone = z.gone \ {n}, !.local = local, !.count = count]
<1>1. z.kind = "list" /\ z.pc = "put" /\ m \in z.left /\ Write(p, n, r) /\ UNCHANGED <<server, ops>>
  BY DEF ListPut, At
<1>2. GoTo(p, o)
  BY DEF ListPut
<1>3. /\ z \in Operation /\ Sound(z, assigned, born) /\ RightRecords(z.local, born)
      /\ ListingIsRight(z, assigned, born) /\ tok \in [Machine -> 0 .. MaxRenewals] /\ born \subseteq Machine
  BY <1>1, OperationIsSound DEF Sound, SessionsInv, SessionsTypeOK
<1>4. m \in born /\ z.byep \in [Machine -> Name \union {None}] /\ z.count \in Nat /\ tok[m] \in 0 .. MaxRenewals
      /\ z.local \in [Name -> Record \union {None}] /\ z.gone \in SUBSET Name /\ z.left \in SUBSET Machine
  BY <1>1, <1>3 DEF ListingIsRight, Operation
<1>5. r \in Record /\ Right(n, r, born)
  <2>1. CASE z.byep[m] = None
    <3>1. n \in Nat \ {0} /\ r = [ep |-> m, tok |-> tok[m], running |-> FALSE]
      BY <1>4, <2>1
    <3>2. n \notin Machine
      BY <3>1, NamesAndNone
    <3>3. r \in Record /\ r.ep = m
      BY <1>4, <3>1 DEF Record
    <3>4. QED BY <1>4, <3>2, <3>3 DEF Right
  <2>2. CASE z.byep[m] # None
    <3>1. n = z.byep[m] /\ n \in Name /\ z.local[n] # None /\ r = [z.local[n] EXCEPT !.tok = tok[m]]
      BY <1>1, <1>3, <1>4, <2>2 DEF ListingIsRight
    <3>2. z.local[n] \in Record /\ Right(n, z.local[n], born)
      BY <1>3, <1>4, <3>1 DEF RightRecords
    <3>3. r \in Record /\ r.ep = z.local[n].ep
      BY <1>4, <3>1, <3>2 DEF Record
    <3>4. QED BY <3>1, <3>2, <3>3 DEF Right
  <2>3. QED BY <2>1, <2>2
<1>6. r # None
  BY <1>5, RecordAssumption
<1> HIDE DEF n, r
<1>7. RightRecords([z.local EXCEPT ![n] = r], born)
  BY <1>3, <1>5, PutIsRight
<1>8. RightRecords(local, born)
  BY <1>7, PartIsRight
<1>9. /\ byep \in [Machine -> Name \union {None}]
      /\ \A x \in Machine : byep[x] # None => x \in rest /\ byep[x] = z.byep[x]
  BY <1>4 DEF Part
<1>10. \A x \in rest : z.byep[x] # None => local[z.byep[x]] # None
  <2>1. ASSUME NEW x \in rest, z.byep[x] # None PROVE local[z.byep[x]] # None
    <3>1. z.byep[x] \in Name /\ z.local[z.byep[x]] # None
      BY <1>1, <1>3, <1>4, <2>1 DEF ListingIsRight
    <3>2. local[z.byep[x]] = [z.local EXCEPT ![n] = r][z.byep[x]]
      BY <1>4, <2>1, <3>1 DEF Part
    <3>3. QED BY <1>4, <1>6, <3>1, <3>2
  <2>2. QED BY <2>1
<1>11. count \in Nat /\ rest \in SUBSET Machine /\ z.gone \ {n} \in SUBSET Name
  BY <1>4
<1> HIDE DEF local, byep, count, rest
<1>12. /\ o \in Operation /\ o.kind = "list" /\ o.pc = "put" /\ o.local = local /\ o.byep = byep
       /\ o.left = rest /\ o.gone = z.gone \ {n} /\ o.s = z.s /\ o.name = z.name
  BY <1>1, <1>3, <1>8, <1>9, <1>11 DEF Operation, RightRecords
<1> HIDE DEF o
<1>13. ListingIsRight(o, assigned, born)
  BY <1>1, <1>3, <1>9, <1>10, <1>12 DEF ListingIsRight, rest
<1>14. Sound(o, assigned, born)
  BY <1>3, <1>8, <1>12, <1>13 DEF Sound, Kinds
<1>15. QED BY <1>1, <1>2, <1>5, <1>6, <1>14, GoesOnWriting

LEMMA EndsSoundly ==
  ASSUME NEW p, NEW z, Ends(p, z)
  PROVE  \E o : GoTo(p, o) /\ Sound(o, assigned, born)
BY IdleIsSound DEF Ends, Listing

LEMMA ListEnds ==
  ASSUME SessionsInv, NEW p \in Proc, Listed(p) \/ \E n \in Name : ListDrop(p, n) PROVE SessionsInv'
<1>0. ops \in 0 .. MaxOps /\ raced \subseteq Proc
  BY DEF SessionsInv, SessionsTypeOK
<1>1. CASE Listed(p)
  <2>1. op[p].kind # "new" /\ Ends(p, op[p]) /\ UNCHANGED <<server, ops, store, raced>>
    BY <1>1 DEF Listed, At, Same
  <2>2. PICK o : GoTo(p, o) /\ Sound(o, assigned, born)
    BY <2>1, EndsSoundly
  <2>3. QED BY <1>0, <2>1, <2>2, GoesOnQuietly
<1>2. ASSUME NEW n \in Name, ListDrop(p, n) PROVE SessionsInv'
  <2> DEFINE o == [op[p] EXCEPT !.gone = @ \ {n}]
  <2>1. /\ op[p].kind = "list" /\ op[p].pc = "put" /\ n \in op[p].gone /\ Write(p, n, None) /\ GoTo(p, o)
        /\ UNCHANGED <<server, ops>>
    BY <1>2 DEF ListDrop, At
  <2>2. op[p] \in Operation /\ Sound(op[p], assigned, born) /\ ListingIsRight(op[p], assigned, born)
    BY <2>1, OperationIsSound
  <2>3. /\ o \in Operation /\ o.kind = "list" /\ o.pc = "put" /\ o.local = op[p].local /\ o.byep = op[p].byep
        /\ o.left = op[p].left /\ o.gone \subseteq op[p].gone /\ o.s = op[p].s /\ o.name = op[p].name
    BY <2>1, <2>2 DEF Operation
  <2> HIDE DEF o
  <2>4. Sound(o, assigned, born)
    BY <2>1, <2>2, <2>3 DEF Sound, ListingIsRight, Kinds
  <2>5. Right(n, None, born) /\ (n \in Machine => n \notin assigned)
    BY <2>1, <2>2 DEF Right, ListingIsRight
  <2>6. QED BY <2>1, <2>4, <2>5, GoesOnWriting
<1>3. QED BY <1>1, <1>2

LEMMA BeginStep ==
  ASSUME SessionsInv, NEW p \in Proc, NEW k \in Kinds, NEW n \in Name, Begin(p, k, n),
         p = KeepAlive => k = "exec"
  PROVE  SessionsInv'
<1> DEFINE o == [NoOp EXCEPT !.kind = k, !.pc = "get", !.name = n, !.stage = IF k = "refresh" THEN "heal" ELSE "first"]
<1>1. op[p] = NoOp /\ ops' \in 0 .. MaxOps /\ GoTo(p, o) /\ UNCHANGED <<server, store>> /\ raced' \subseteq Proc
  BY StartsCount DEF Begin, SessionsInv, SessionsTypeOK
<1>2. /\ o \in Operation /\ o.kind = k /\ o.pc = "get" /\ o.name = n /\ o.s = None /\ o.local = NoRecords
      /\ o.stage \in {"first", "heal"}
  BY IdleIsSound DEF NoOp, Operation, Heals
<1>3. RightRecords(NoRecords, born)
  BY DEF RightRecords, Right, NoRecords
<1> HIDE DEF o
<1>4. Sound(o, assigned, born)
  BY <1>2, <1>3 DEF Sound, CopyIsRight, Right, Kinds
<1>5. op[p].kind # "new"
  BY <1>1 DEF NoOp
<1>6. QED BY <1>1, <1>4, <1>5, GoesOnQuietly

LEMMA GetStep ==
  ASSUME SessionsInv, NEW p \in Proc, Get(p) PROVE SessionsInv'
<1> DEFINE z == op[p]
           s == store[z.name]
           o == [z EXCEPT !.pc = "look", !.local[z.name] = s]
<1>1. z.kind \in Kinds /\ z.pc = "get" /\ UNCHANGED <<server, ops, store, raced>>
  BY DEF Get, Same
<1>2. /\ z \in Operation /\ Sound(z, assigned, born) /\ CopyIsRight(z, assigned, born)
      /\ z.kind \notin {"none", "new", "list"} /\ z.name \in Name
  BY <1>1, OperationIsSound
<1>3. s \in Record \union {None} /\ Right(z.name, s, born) /\ ops \in 0 .. MaxOps /\ raced \subseteq Proc
  BY <1>2 DEF SessionsInv, SessionsTypeOK, RightRecords
<1>4. CASE GoTo(p, NotLoaded(z))
  BY <1>1, <1>2, <1>3, <1>4, NotLoadedIsSound, GoesOnQuietly
<1>5. CASE s # None /\ GoTo(p, Loaded(z, s))
  BY <1>1, <1>2, <1>3, <1>5, LoadedIsSound, GoesOnQuietly
<1>6. CASE s # None /\ GoTo(p, o)
  <2> DEFINE local == [z.local EXCEPT ![z.name] = s]
  <2>1. RightRecords(local, born) /\ local[z.name] = s
    BY <1>2, <1>3, PutIsRight DEF Sound, RightRecords
  <2>2. o = [z EXCEPT !.pc = "look", !.local = local]
    BY <1>2 DEF Operation
  <2> HIDE DEF local, o, s
  <2>3. /\ o \in Operation /\ o.kind = z.kind /\ o.pc = "look" /\ o.local = local /\ o.s = z.s
        /\ o.name = z.name /\ o.stage = z.stage
    BY <1>2, <2>1, <2>2 DEF Operation, RightRecords
  <2>4. Sound(o, assigned, born)
    BY <1>1, <1>2, <1>6, <2>1, <2>3 DEF Sound, CopyIsRight
  <2>5. QED BY <1>1, <1>2, <1>3, <1>6, <2>4, GoesOnQuietly
<1>7. QED BY <1>4, <1>5, <1>6 DEF Get

LEMMA LookSteps ==
  ASSUME SessionsInv, NEW p \in Proc, Look(p) \/ LookFails(p) PROVE SessionsInv'
<1> DEFINE z == op[p]
           s == z.local[z.name]
           fresh == [s EXCEPT !.tok = tok[s.ep]]
<1>1. z.pc = "look" /\ UNCHANGED <<server, ops, store, raced>>
  BY DEF Look, LookFails, Same
<1>2. /\ z \in Operation /\ Sound(z, assigned, born) /\ CopyIsRight(z, assigned, born) /\ z.kind \in Kinds
      /\ z.kind \notin {"none", "new", "list"} /\ z.name \in Name
  BY <1>1, OperationIsSound
<1>3. s \in Record /\ Right(z.name, s, born) /\ s # None /\ ops \in 0 .. MaxOps /\ raced \subseteq Proc
  BY <1>1, <1>2 DEF SessionsInv, SessionsTypeOK, Sound, RightRecords, CopyIsRight
<1>4. fresh \in Record /\ Right(z.name, fresh, born)
  BY <1>3 DEF Record, Right, SessionsInv, SessionsTypeOK
<1>5. CASE s.ep \notin assigned /\ GoTo(p, [z EXCEPT !.pc = "drop"])
  <2> DEFINE o == [z EXCEPT !.pc = "drop"]
  <2>1. /\ o \in Operation /\ o.kind = z.kind /\ o.pc = "drop" /\ o.local = z.local /\ o.s = z.s
        /\ o.name = z.name /\ o.stage = z.stage
    BY <1>2 DEF Operation
  <2> HIDE DEF o, s
  <2>2. z.name \in Machine => z.name \in born \ assigned
    BY <1>3, <1>5 DEF Right
  <2>3. Sound(o, assigned, born)
    BY <1>1, <1>2, <2>1, <2>2 DEF Sound, CopyIsRight
  <2>4. QED BY <1>1, <1>2, <1>3, <1>5, <2>3, GoesOnQuietly DEF o
<1>6. CASE GoTo(p, [NotLoaded(z) EXCEPT !.local = NoRecords])
  BY <1>1, <1>2, <1>3, <1>6, NotLoadedIsSound, GoesOnQuietly
<1>7. CASE GoTo(p, [z EXCEPT !.pc = "put", !.local[z.name] = fresh])
  <2> DEFINE local == [z.local EXCEPT ![z.name] = fresh]
             o == [z EXCEPT !.pc = "put", !.local[z.name] = fresh]
  <2>1. RightRecords(local, born) /\ local[z.name] = fresh
    BY <1>2, <1>4, PutIsRight DEF Sound, RightRecords
  <2>2. o = [z EXCEPT !.pc = "put", !.local = local]
    BY <1>2 DEF Operation
  <2> HIDE DEF local, o, fresh, s
  <2>3. /\ o \in Operation /\ o.kind = z.kind /\ o.pc = "put" /\ o.local = local /\ o.s = z.s
        /\ o.name = z.name /\ o.stage = z.stage
    BY <1>2, <2>1, <2>2 DEF Operation, RightRecords
  <2>4. fresh # None
    BY <1>4, RecordAssumption
  <2>5. Sound(o, assigned, born)
    BY <1>1, <1>2, <2>1, <2>3, <2>4 DEF Sound, CopyIsRight
  <2>6. GoTo(p, o)
    BY <1>7 DEF o, fresh, s
  <2>7. QED BY <1>1, <1>2, <1>3, <2>5, <2>6, GoesOnQuietly
<1>8. CASE LookFails(p)
  BY <1>1, <1>2, <1>3, <1>8, NotLoadedIsSound, GoesOnQuietly DEF LookFails
<1>9. CASE Look(p)
  BY <1>5, <1>6, <1>7, <1>9 DEF Look
<1>10. QED BY <1>8, <1>9

LEMMA FreshSteps ==
  ASSUME SessionsInv, NEW p \in Proc, FreshPut(p) \/ FreshDrop(p) PROVE SessionsInv'
<1> DEFINE z == op[p]
           s == z.local[z.name]
<1>1. z.pc = "drop" => z.kind \in Kinds
  BY OperationIsSound
<1>2. z.kind \in Kinds /\ UNCHANGED <<server, ops>>
  BY <1>1 DEF FreshPut, FreshDrop
<1>3. /\ z \in Operation /\ Sound(z, assigned, born) /\ CopyIsRight(z, assigned, born)
      /\ z.kind \notin {"none", "new", "list"} /\ z.name \in Name
  BY <1>2, OperationIsSound
<1>4. CASE FreshPut(p)
  <2>1. s \in Record /\ Right(z.name, s, born) /\ s # None
    BY <1>2, <1>3, <1>4 DEF FreshPut, Sound, RightRecords, CopyIsRight
  <2>2. Sound([Loaded(z, s) EXCEPT !.local = NoRecords], assigned, born)
    BY <1>2, <1>3, <2>1, LoadedIsSound
  <2>3. Write(p, z.name, s) /\ GoTo(p, [Loaded(z, s) EXCEPT !.local = NoRecords])
    BY <1>4 DEF FreshPut
  <2>4. QED BY <1>2, <1>3, <2>1, <2>2, <2>3, GoesOnWriting
<1>5. CASE FreshDrop(p)
  <2>1. Write(p, z.name, None) /\ GoTo(p, [NotLoaded(z) EXCEPT !.local = NoRecords]) /\ z.pc = "drop"
    BY <1>5 DEF FreshDrop
  <2>2. Sound([NotLoaded(z) EXCEPT !.local = NoRecords], assigned, born)
    BY <1>2, <1>3, NotLoadedIsSound
  <2>3. Right(z.name, None, born) /\ (z.name \in Machine => z.name \notin assigned)
    BY <1>3, <2>1 DEF Right, CopyIsRight
  <2>4. QED BY <1>2, <1>3, <2>1, <2>2, <2>3, GoesOnWriting
<1>6. QED BY <1>4, <1>5

\* An operation that goes on with the same copy, but for its running mark.
LEMMA CopySound ==
  ASSUME SessionsInv, NEW p \in Proc, op[p].kind \in Kinds,
         NEW o \in Operation, o.kind = op[p].kind, o.name = op[p].name, o.local = op[p].local,
         op[p].s = None => o.s = None,
         op[p].s # None => o.s \in Record /\ o.s.ep = op[p].s.ep,
         CopyIsRight(o, assigned, born)
  PROVE  Sound(o, assigned, born)
<1>1. Sound(op[p], assigned, born) /\ op[p].kind \notin {"none", "new", "list"}
  BY OperationIsSound
<1>2. QED BY <1>1 DEF Sound, Right

LEMMA MarkStep ==
  ASSUME SessionsInv, NEW p \in Proc, Mark(p) PROVE SessionsInv'
<1> DEFINE z == op[p]
           s == [z.s EXCEPT !.running = @ \/ z.kind = "exec"]
           o1 == [z EXCEPT !.pc = "run", !.s = s, !.healed = FALSE]
           o2 == [z EXCEPT !.pc = "end"]
<1>1. z.pc = "mark" /\ Write(p, z.name, s) /\ UNCHANGED <<server, ops>>
      /\ GoTo(p, IF z.kind = "exec" THEN o1 ELSE o2)
  BY DEF Mark
<1>2. /\ z \in Operation /\ Sound(z, assigned, born) /\ CopyIsRight(z, assigned, born) /\ z.kind \in Kinds
      /\ z.kind \notin {"none", "new", "list"} /\ z.name \in Name
  BY <1>1, OperationIsSound
<1>3. z.s \in Record /\ z.s # None /\ Right(z.name, z.s, born)
  BY <1>1, <1>2 DEF Sound, CopyIsRight, Operation
<1>4. s \in Record /\ s.ep = z.s.ep
  <2>1. (z.s.running \/ z.kind = "exec") \in BOOLEAN
    OBVIOUS
  <2>2. QED BY <1>3, <2>1 DEF Record
<1>5. s # None /\ Right(z.name, s, born)
  BY <1>3, <1>4, RecordAssumption DEF Right
<1> HIDE DEF s
<1>6. CASE z.kind = "exec"
  <2>1. /\ o1 \in Operation /\ o1.kind = z.kind /\ o1.name = z.name /\ o1.local = z.local /\ o1.s = s
        /\ o1.pc = "run" /\ o1.stage = z.stage
    BY <1>2, <1>4 DEF Operation
  <2> HIDE DEF o1
  <2>2. CopyIsRight(o1, assigned, born)
    BY <1>2, <1>5, <1>6, <2>1 DEF CopyIsRight
  <2>3. Sound(o1, assigned, born)
    BY <1>2, <1>3, <1>4, <2>1, <2>2, CopySound
  <2>4. QED BY <1>1, <1>2, <1>4, <1>5, <1>6, <2>3, GoesOnWriting
<1>7. CASE z.kind # "exec"
  <2>1. /\ o2 \in Operation /\ o2.kind = z.kind /\ o2.name = z.name /\ o2.local = z.local /\ o2.s = z.s
        /\ o2.pc = "end" /\ o2.stage = z.stage
    BY <1>2 DEF Operation
  <2> HIDE DEF o2
  <2>2. CopyIsRight(o2, assigned, born)
    BY <1>2, <1>7, <2>1 DEF CopyIsRight
  <2>3. Sound(o2, assigned, born)
    BY <1>2, <1>3, <2>1, <2>2, CopySound
  <2>4. QED BY <1>1, <1>2, <1>4, <1>5, <1>7, <2>3, GoesOnWriting
<1>8. QED BY <1>6, <1>7

LEMMA RefusedStep ==
  ASSUME SessionsInv, NEW p \in Proc, Refused(p) PROVE SessionsInv'
<1> DEFINE z == op[p]
           o1 == [z EXCEPT !.pc = "get", !.healed = TRUE, !.stage = IF z.pc = "mark" THEN "heal" ELSE "reheal"]
           o2 == [z EXCEPT !.pc = "get", !.stage = "last", !.failed = TRUE]
           o3 == [z EXCEPT !.pc = "end", !.failed = TRUE]
<1>1. z.pc \in {"mark", "run"} /\ UNCHANGED <<server, ops, store, raced>>
  BY DEF Refused, Same
<1>2. \/ GoTo(p, o1)
      \/ z.pc = "run" /\ GoTo(p, o2)
      \/ GoTo(p, o3)
  BY DEF Refused
<1>3. /\ z \in Operation /\ Sound(z, assigned, born) /\ CopyIsRight(z, assigned, born) /\ z.kind \in Kinds
      /\ z.kind \notin {"none", "new", "list"} /\ z.name \in Name
  BY <1>1, OperationIsSound
<1>4. z.s \in Record /\ z.s # None /\ ops \in 0 .. MaxOps /\ raced \subseteq Proc
  BY <1>1, <1>3 DEF CopyIsRight, Operation, SessionsInv, SessionsTypeOK
<1>5. /\ o1 \in Operation /\ o1.kind = z.kind /\ o1.name = z.name /\ o1.local = z.local /\ o1.s = z.s
      /\ o1.pc = "get" /\ o1.stage = IF z.pc = "mark" THEN "heal" ELSE "reheal"
  BY <1>3 DEF Operation, Heals
<1>6. /\ o2 \in Operation /\ o2.kind = z.kind /\ o2.name = z.name /\ o2.local = z.local /\ o2.s = z.s
      /\ o2.pc = "get" /\ o2.stage = "last"
  BY <1>3 DEF Operation
<1>7. /\ o3 \in Operation /\ o3.kind = z.kind /\ o3.name = z.name /\ o3.local = z.local /\ o3.s = z.s
      /\ o3.pc = "end" /\ o3.stage = z.stage
  BY <1>3 DEF Operation
<1> HIDE DEF o1, o2, o3
<1>8. CopyIsRight(o1, assigned, born) /\ (z.pc = "run" => CopyIsRight(o2, assigned, born))
      /\ CopyIsRight(o3, assigned, born)
  BY <1>1, <1>3, <1>4, <1>5, <1>6, <1>7 DEF CopyIsRight
<1>9. Sound(o1, assigned, born) /\ (z.pc = "run" => Sound(o2, assigned, born)) /\ Sound(o3, assigned, born)
  BY <1>3, <1>4, <1>5, <1>6, <1>7, <1>8, CopySound
<1>10. QED BY <1>1, <1>2, <1>3, <1>4, <1>9, GoesOnQuietly

LEMMA RunSteps ==
  ASSUME SessionsInv, NEW p \in Proc, RunEnds(p) \/ Unmark(p) \/ OpEnds(p) PROVE SessionsInv'
<1> DEFINE z == op[p]
           s == [z.s EXCEPT !.running = FALSE]
           o1 == [z EXCEPT !.pc = "get", !.stage = "last", !.s.running = FALSE]
           o2 == [z EXCEPT !.pc = "end"]
<1>1. z.pc \in {"run", "unmark", "end"} /\ UNCHANGED <<server, ops>>
  BY DEF RunEnds, Unmark, OpEnds
<1>2. /\ z \in Operation /\ Sound(z, assigned, born) /\ CopyIsRight(z, assigned, born) /\ z.kind \in Kinds
      /\ z.kind \notin {"none", "new", "list"} /\ z.name \in Name /\ ops \in 0 .. MaxOps /\ raced \subseteq Proc
  BY <1>1, OperationIsSound DEF SessionsInv, SessionsTypeOK
<1>3. ASSUME z.pc \in {"run", "unmark"}
      PROVE  z.s \in Record /\ z.s # None /\ s \in Record /\ s.ep = z.s.ep /\ s # None /\ Right(z.name, s, born)
  <2>1. z.s \in Record /\ z.s # None
    BY <1>2, <1>3 DEF CopyIsRight, Operation
  <2>2. s \in Record /\ s.ep = z.s.ep
    BY <2>1 DEF Record
  <2>3. QED BY <1>2, <2>1, <2>2, RecordAssumption DEF Sound, Right
<1>4. CASE RunEnds(p)
  <2>1. z.pc = "run" /\ GoTo(p, o1) /\ UNCHANGED <<store, raced>>
    BY <1>4 DEF RunEnds, Same
  <2>2. o1 = [z EXCEPT !.pc = "get", !.stage = "last", !.s = s]
    BY <1>2 DEF Operation
  <2>3. s \in Record /\ s.ep = z.s.ep /\ s # None /\ z.s # None
    BY <1>3, <2>1
  <2> HIDE DEF s, o1
  <2>4. /\ o1 \in Operation /\ o1.kind = z.kind /\ o1.name = z.name /\ o1.local = z.local /\ o1.s = s
        /\ o1.pc = "get" /\ o1.stage = "last"
    BY <1>2, <2>2, <2>3 DEF Operation
  <2>5. CopyIsRight(o1, assigned, born)
    BY <1>2, <2>1, <2>3, <2>4 DEF CopyIsRight
  <2>6. Sound(o1, assigned, born)
    BY <1>2, <2>3, <2>4, <2>5, CopySound
  <2>7. QED BY <1>1, <1>2, <2>1, <2>6, GoesOnQuietly
<1>5. CASE Unmark(p)
  <2>1. z.pc = "unmark" /\ GoTo(p, o2) /\ Write(p, z.name, s)
    BY <1>5 DEF Unmark
  <2>2. s \in Record /\ s # None /\ Right(z.name, s, born) /\ z.s \in Record /\ z.s # None
    BY <1>3, <2>1
  <2> HIDE DEF s
  <2>3. /\ o2 \in Operation /\ o2.kind = z.kind /\ o2.name = z.name /\ o2.local = z.local /\ o2.s = z.s
        /\ o2.pc = "end" /\ o2.stage = z.stage
    BY <1>2 DEF Operation
  <2> HIDE DEF o2
  <2>4. CopyIsRight(o2, assigned, born)
    BY <1>2, <2>1, <2>2, <2>3 DEF CopyIsRight
  <2>5. Sound(o2, assigned, born)
    BY <1>2, <2>2, <2>3, <2>4, CopySound
  <2>6. QED BY <1>1, <1>2, <2>1, <2>2, <2>5, GoesOnWriting
<1>6. CASE OpEnds(p)
  <2>1. Ends(p, z) /\ raced' \subseteq Proc /\ UNCHANGED store
    BY <1>2, <1>6 DEF OpEnds
  <2>2. PICK o : GoTo(p, o) /\ Sound(o, assigned, born)
    BY <2>1, EndsSoundly
  <2>3. QED BY <1>1, <1>2, <2>1, <2>2, GoesOnQuietly
<1>7. QED BY <1>4, <1>5, <1>6

LEMMA StopSteps ==
  ASSUME SessionsInv, NEW p \in Proc, Unassign(p) \/ Remove(p) PROVE SessionsInv'
<1> DEFINE z == op[p]
           o == [z EXCEPT !.pc = "remove"]
<1>1. z.kind = "stop" /\ z.pc \in {"unassign", "remove"}
  BY DEF Unassign, Remove, At
<1>2. /\ z \in Operation /\ Sound(z, assigned, born) /\ CopyIsRight(z, assigned, born) /\ z.kind \in Kinds
      /\ z.name \in Name /\ ops \in 0 .. MaxOps /\ raced \subseteq Proc
      /\ assigned \subseteq born /\ born \subseteq Machine /\ RightRecords(store, born) /\ op \in [Proc -> Operation]
  BY <1>1, OperationIsSound DEF SessionsInv, SessionsTypeOK
<1>3. z.s \in Record /\ z.s # None /\ Right(z.name, z.s, born)
  BY <1>1, <1>2 DEF CopyIsRight, Operation, Sound
<1>4. CASE Unassign(p)
  <2>1. /\ z.pc = "unassign" /\ GoTo(p, o) /\ assigned' = assigned \ {z.s.ep}
        /\ UNCHANGED <<born, tok, renewals, ops, store, raced>>
    BY <1>4 DEF Unassign, At, Same
  <2>2. /\ o \in Operation /\ o.kind = z.kind /\ o.name = z.name /\ o.local = z.local /\ o.s = z.s
        /\ o.pc = "remove" /\ o.stage = z.stage
    BY <1>2 DEF Operation
  <2> HIDE DEF o
  <2>3. z.name \in Machine => z.name \in born \ assigned'
    BY <1>3, <2>1 DEF Right
  <2>4. CopyIsRight(o, assigned', born)
    BY <1>1, <1>2, <1>3, <2>2, <2>3 DEF CopyIsRight
  <2>5. Sound(o, assigned', born')
    BY <1>1, <1>2, <2>1, <2>2, <2>4 DEF Sound, Kinds
  <2>6. \A q \in Proc \ {p} : op'[q] = op[q]
    BY <1>2, <2>1 DEF GoTo
  <2>7. CreatedStaysListed'
    <3>1. ASSUME NEW m \in assigned' \ Foreign
          PROVE  \/ \E q \in User : op'[q].kind = "new" /\ op'[q].pc = "put" /\ op'[q].name = m
                 \/ store'[m] # None /\ store'[m].ep = m
      <4>1. m \in assigned \ Foreign
        BY <2>1, <3>1
      <4>2. (\E q \in User : At(q, "new", "put") /\ op[q].name = m) \/ (Exists(m) /\ store[m].ep = m)
        BY <4>1 DEF SessionsInv, CreatedStaysListed
      <4>3. \A q \in User : At(q, "new", "put") => q \in Proc \ {p}
        BY <1>1, NamesAndNone DEF At
      <4>4. QED BY <2>1, <2>6, <4>2, <4>3 DEF At, Exists
    <3>2. QED BY <3>1 DEF CreatedStaysListed, At, Exists
  <2>8. assigned' \subseteq born' /\ born' \subseteq Machine /\ born \subseteq born' /\ assigned' \intersect born \subseteq assigned
    BY <1>2, <2>1
  <2>9. RightRecords(store', born') /\ ops' \in 0 .. MaxOps /\ raced' \subseteq Proc /\ UNCHANGED <<tok, renewals>>
    BY <1>2, <2>1
  <2>10. QED BY <2>1, <2>5, <2>7, <2>8, <2>9, OneGoesOn
<1>5. CASE Remove(p)
  <2>1. z.pc = "remove" /\ Write(p, z.name, None) /\ GoTo(p, NoOp) /\ UNCHANGED <<server, ops>>
    BY <1>5 DEF Remove, At
  <2>2. Right(z.name, None, born) /\ (z.name \in Machine => z.name \notin assigned)
    BY <1>2, <2>1 DEF Right, CopyIsRight
  <2>3. QED BY <1>1, <2>1, <2>2, IdleIsSound, GoesOnWriting
<1>6. QED BY <1>4, <1>5

LEMMA SessionsStep == SessionsInv /\ [Next]_vars => SessionsInv'
<1> SUFFICES ASSUME SessionsInv, [Next]_vars PROVE SessionsInv'
  OBVIOUS
<1>1. ASSUME NEW m \in Machine, Appears(m) \/ Pruned(m) \/ Renew(m) PROVE SessionsInv'
  BY <1>1, ColabStep
<1>2. ASSUME NEW p \in User,
             \/ List(p) \/ ListFails(p) \/ LookFails(p)
             \/ \E m \in Machine : NewSession(p, m)
             \/ \E k \in Kinds, n \in Name : Begin(p, k, n)
      PROVE  SessionsInv'
  <2>1. p \in Proc /\ p # KeepAlive
    BY NamesAndNone, SessionsAssumption
  <2>2. QED BY <1>2, <2>1, ListSteps, LookSteps, NewSteps, BeginStep
<1>3. ASSUME Wakes PROVE SessionsInv'
  BY <1>3, NamesAndNone, BeginStep DEF Wakes, Kinds
<1>4. ASSUME NEW p \in Proc, Step(p) PROVE SessionsInv'
  <2>1. CASE NewStored(p) \/ Snapshot(p) \/ Assignments(p) \/ Listed(p)
    BY <2>1, NewStoredStep, ListSteps, AssignmentsStep, ListEnds
  <2>2. CASE (\E m \in Machine : ListPut(p, m)) \/ (\E n \in Name : ListDrop(p, n))
    BY <2>2, ListPutStep, ListEnds
  <2>3. CASE Get(p) \/ Look(p) \/ FreshPut(p) \/ FreshDrop(p)
    BY <2>3, GetStep, LookSteps, FreshSteps
  <2>4. CASE Mark(p) \/ Refused(p) \/ RunEnds(p) \/ Unmark(p) \/ OpEnds(p) \/ Unassign(p) \/ Remove(p)
    BY <2>4, MarkStep, RefusedStep, RunSteps, StopSteps
  <2>5. QED BY <1>4, <2>1, <2>2, <2>3, <2>4 DEF Step
<1>5. ASSUME UNCHANGED vars PROVE SessionsInv'
  BY <1>5 DEF SessionsInv, SessionsTypeOK, CreatedStaysListed, At, Exists, vars
<1>6. QED BY <1>1, <1>2, <1>3, <1>4, <1>5 DEF Next

\* Types of what the operations have in hand and in the store.
THEOREM SessionTypesHold == Spec => []SessionsTypeOK
<1>1. SessionsInv => SessionsTypeOK
  BY DEF SessionsInv
<1>2. QED BY SessionsInitially, SessionsStep, <1>1, PTL DEF Spec

\* Whatever lists, executes, stops and renews at the same time: a session the
\* app created is stored under its name, for its machine, as long as Colab
\* assigns that machine (session_ops.py list_sessions, stop_session,
\* load_session_fresh; execution.py exec_code).
THEOREM CreatedStayListed == Spec => []CreatedStaysListed
<1>1. SessionsInv => CreatedStaysListed
  BY DEF SessionsInv
<1>2. QED BY SessionsInitially, SessionsStep, <1>1, PTL DEF Spec

\* The keep-alive loop's and the user's executions: every token in the records
\* is one that Colab has minted.
Minted(r, k) == r # None => r.tok <= k

TokensAreMinted ==
  /\ \A n \in Name : Minted(store[n], renewals)
  /\ \A p \in Proc : Minted(op[p].s, renewals) /\ \A n \in Name : Minted(op[p].local[n], renewals)

\* While the machine lives, the one renewal has happened, and the record has its
\* token or has not.
Decided(r, fresh, live, k, t) == r.ep \in live /\ k <= 1 => k = 1 /\ (r.tok = t[r.ep] <=> fresh)

\* What an execution knows that nobody else wrote the record r of: its copy is
\* the store's, a copy that was refused is stale, and one that was healed is not.
Healing(o, r, live, k, t) ==
  /\ o.stage = "first" => ~o.healed
  /\ o.stage = "first" /\ o.pc \in {"get", "look", "put", "drop"} => o.s = None
  /\ o.stage \in Heals => o.s # None
  /\ o.pc \in {"mark", "run"} => o.s = r /\ o.stage # "last" /\ (o.healed => Decided(o.s, TRUE, live, k, t))
  /\ o.stage \in Heals /\ o.pc \in {"get", "look"} => o.s = r /\ Decided(o.s, FALSE, live, k, t)
  /\ o.stage \in Heals /\ o.pc = "look" => o.local[o.name] = o.s
  /\ o.stage \in Heals /\ o.pc = "put" => Decided(o.local[o.name], TRUE, live, k, t)
  /\ o.stage \in Heals /\ o.pc = "drop" => o.s.ep \notin live
  /\ o.failed => /\ o.stage = "last" \/ o.pc = "end"
                 /\ o.lost \/ o.s = None \/ o.s.ep \notin live \/ k > 1

CopiesAreCurrent ==
  \A p \in Proc \ raced : op[p].kind = "exec" =>
    Healing(op[p], store[op[p].name], assigned, renewals, tok)

HealsInv == SessionsInv /\ TokensAreMinted /\ CopiesAreCurrent

\* Another machine, a machine that goes and one more token change none of that.
LEMMA HealingStays ==
  ASSUME NEW o, NEW r, NEW live, NEW machines, NEW k \in Nat, NEW t,
         NEW live2, NEW k2 \in Nat, NEW t2,
         CopyIsRight(o, live, machines), RightRecords(o.local, machines), Right(o.name, o.s, machines),
         Healing(o, r, live, k, t),
         live2 \intersect machines \subseteq live, (k2 = k /\ t2 = t) \/ k2 = k + 1
  PROVE  Healing(o, r, live2, k2, t2)
<1>1. ASSUME NEW c, c.ep \in machines, NEW fresh \in BOOLEAN, Decided(c, fresh, live, k, t)
      PROVE  Decided(c, fresh, live2, k2, t2)
  <2>1. CASE k2 = k /\ t2 = t
    BY <1>1, <2>1 DEF Decided
  <2>2. CASE k2 = k + 1
    <3>1. SUFFICES ASSUME c.ep \in live2, k2 <= 1 PROVE FALSE
      BY DEF Decided
    <3>2. c.ep \in live /\ k = 0
      BY <1>1, <2>2, <3>1
    <3>3. QED BY <1>1, <3>2 DEF Decided
  <2>3. QED BY <2>1, <2>2
<1>2. o.s # None => o.s.ep \in machines
  BY DEF Right
<1>3. o.pc \in {"mark", "run"} \/ o.stage \in Heals => o.s # None
  BY DEF CopyIsRight, Healing
<1>4. o.pc = "put" => o.local[o.name].ep \in machines
  BY DEF CopyIsRight, RightRecords, Right
<1>5. /\ o.pc \in {"mark", "run"} /\ o.healed => Decided(o.s, TRUE, live2, k2, t2)
      /\ o.stage \in Heals /\ o.pc \in {"get", "look"} => Decided(o.s, FALSE, live2, k2, t2)
  BY <1>1, <1>2, <1>3 DEF Healing
<1>6. o.stage \in Heals /\ o.pc = "put" => Decided(o.local[o.name], TRUE, live2, k2, t2)
  BY <1>1, <1>4 DEF Healing
<1>7. o.stage \in Heals /\ o.pc = "drop" => o.s.ep \notin live2
  BY <1>2, <1>3 DEF Healing
<1>8. o.failed => /\ o.stage = "last" \/ o.pc = "end"
                  /\ o.lost \/ o.s = None \/ o.s.ep \notin live2 \/ k2 > 1
  BY <1>2 DEF Healing
<1>9. QED BY <1>5, <1>6, <1>7, <1>8 DEF Healing

\* One process goes on, and notes it with those whose record it writes.
LEMMA OneGoesOnHealing ==
  ASSUME HealsInv, NEW p \in Proc, NEW o, GoTo(p, o),
         UNCHANGED <<tok, renewals>>, assigned' \intersect born \subseteq assigned,
         Minted(o.s, renewals), \A n \in Name : Minted(o.local[n], renewals),
         \A n \in Name : Minted(store'[n], renewals),
         \A q \in Proc \ {p} : op[q].kind = "exec" /\ q \notin raced' =>
           q \notin raced /\ store'[op[q].name] = store[op[q].name],
         o.kind = "exec" /\ p \notin raced' => Healing(o, store'[o.name], assigned', renewals, tok)
  PROVE  TokensAreMinted' /\ CopiesAreCurrent'
<1>1. op'[p] = o /\ \A q \in Proc \ {p} : op'[q] = op[q]
  BY DEF GoTo, HealsInv, SessionsInv, SessionsTypeOK
<1>2. TokensAreMinted'
  <2>1. \A n \in Name : Minted(store'[n], renewals')
    OBVIOUS
  <2>2. ASSUME NEW q \in Proc
        PROVE  Minted(op'[q].s, renewals') /\ \A n \in Name : Minted(op'[q].local[n], renewals')
    BY <1>1 DEF HealsInv, TokensAreMinted
  <2>3. QED BY <2>1, <2>2 DEF TokensAreMinted
<1>3. ASSUME NEW q \in Proc \ {p}, q \notin raced', op[q].kind = "exec"
      PROVE  Healing(op[q], store'[op[q].name], assigned', renewals, tok)
  <2>1. q \notin raced /\ store'[op[q].name] = store[op[q].name]
    BY <1>3
  <2>2. Healing(op[q], store[op[q].name], assigned, renewals, tok)
    BY <1>3, <2>1 DEF HealsInv, CopiesAreCurrent
  <2>3. CopyIsRight(op[q], assigned, born) /\ RightRecords(op[q].local, born) /\ Right(op[q].name, op[q].s, born)
    BY <1>3, OperationIsSound DEF HealsInv, Sound, Kinds
  <2>4. renewals \in Nat
    BY SessionsAssumption DEF HealsInv, SessionsInv, SessionsTypeOK
  <2>5. Healing(op[q], store[op[q].name], assigned', renewals, tok)
    BY <2>2, <2>3, <2>4, HealingStays
  <2>6. QED BY <2>1, <2>5
<1>4. ASSUME NEW q \in Proc \ raced', op'[q].kind = "exec"
      PROVE  Healing(op'[q], store'[op'[q].name], assigned', renewals', tok')
  <2>1. CASE q = p
    BY <1>1, <1>4, <2>1
  <2>2. CASE q # p
    BY <1>1, <1>3, <1>4, <2>2
  <2>3. QED BY <2>1, <2>2
<1>5. CopiesAreCurrent'
  BY <1>4 DEF CopiesAreCurrent
<1>6. QED BY <1>2, <1>5

LEMMA HealsQuietly ==
  ASSUME HealsInv, NEW p \in Proc, NEW o, GoTo(p, o),
         UNCHANGED <<tok, renewals, store>>, assigned' \intersect born \subseteq assigned, raced \ {p} \subseteq raced',
         Minted(o.s, renewals), \A n \in Name : Minted(o.local[n], renewals),
         o.kind = "exec" /\ p \notin raced' => Healing(o, store[o.name], assigned', renewals, tok)
  PROVE  TokensAreMinted' /\ CopiesAreCurrent'
<1>1. \A n \in Name : Minted(store'[n], renewals)
  BY DEF HealsInv, TokensAreMinted
<1>2. \A q \in Proc \ {p} : op[q].kind = "exec" /\ q \notin raced' =>
        q \notin raced /\ store'[op[q].name] = store[op[q].name]
  OBVIOUS
<1>3. store'[o.name] = store[o.name]
  OBVIOUS
<1>4. QED BY <1>1, <1>2, <1>3, OneGoesOnHealing

LEMMA HealsWriting ==
  ASSUME HealsInv, NEW p \in Proc, NEW o, GoTo(p, o), UNCHANGED server,
         NEW n, NEW r, Write(p, n, r), Minted(r, renewals),
         Minted(o.s, renewals), \A x \in Name : Minted(o.local[x], renewals),
         o.kind = "exec" => n = o.name /\ n \in Name /\ (p \notin raced => Healing(o, r, assigned, renewals, tok))
  PROVE  TokensAreMinted' /\ CopiesAreCurrent'
<1>1. /\ store' = [store EXCEPT ![n] = r] /\ store \in [Name -> Record \union {None}]
      /\ raced' = raced \union {q \in Proc \ {p} : op[q].kind = "exec" /\ op[q].name = n}
  BY DEF Write, HealsInv, SessionsInv, SessionsTypeOK
<1>2. \A x \in Name : store'[x] = IF x = n THEN r ELSE store[x]
  BY <1>1
<1>3. o.kind = "exec" /\ p \notin raced' => Healing(o, store'[o.name], assigned', renewals, tok)
  BY <1>1, <1>2 DEF server
<1>4. \A x \in Name : Minted(store'[x], renewals)
  BY <1>2 DEF HealsInv, TokensAreMinted
<1>5. ASSUME NEW q \in Proc \ {p}, op[q].kind = "exec", q \notin raced'
      PROVE  q \notin raced /\ store'[op[q].name] = store[op[q].name]
  <2>1. op[q].name \in Name
    BY <1>5, OperationIsSound DEF HealsInv, Kinds
  <2>2. QED BY <1>1, <1>2, <1>5, <2>1
<1>6. UNCHANGED <<tok, renewals>> /\ assigned' \intersect born \subseteq assigned
  BY DEF server
<1>7. QED BY <1>3, <1>4, <1>5, <1>6, OneGoesOnHealing

LEMMA HealsInitially == Init => HealsInv
<1> SUFFICES ASSUME Init PROVE HealsInv
  OBVIOUS
<1>1. SessionsInv
  BY SessionsInitially
<1>2. TokensAreMinted
  <2>1. \A n \in Name : Minted(store[n], renewals)
    BY DEF Init, Minted
  <2>2. Minted(None, renewals) /\ \A n \in Name : NoOp.s = None /\ NoOp.local[n] = None
    BY DEF Minted, NoOp, NoRecords
  <2>3. QED BY <2>1, <2>2 DEF TokensAreMinted, Init, Minted, NoOp
<1>3. CopiesAreCurrent
  BY DEF CopiesAreCurrent, Init, NoOp
<1>4. QED BY <1>1, <1>2, <1>3 DEF HealsInv

LEMMA HealsColab ==
  ASSUME HealsInv, NEW m \in Machine, Appears(m) \/ Pruned(m) \/ Renew(m)
  PROVE  TokensAreMinted' /\ CopiesAreCurrent'
<1>1. /\ UNCHANGED <<store, op, raced>> /\ assigned' \intersect born \subseteq assigned
      /\ (renewals' = renewals /\ tok' = tok) \/ renewals' = renewals + 1
  BY DEF Appears, Pruned, Renew
<1>2. renewals \in Nat /\ renewals' \in Nat
  BY <1>1, SessionsAssumption DEF HealsInv, SessionsInv, SessionsTypeOK
<1>3. ASSUME NEW c \in Record \union {None}, Minted(c, renewals) PROVE Minted(c, renewals')
  <2>1. c # None => c.tok \in Nat
    BY <1>3, SessionsAssumption DEF Record
  <2>2. QED BY <1>1, <1>2, <1>3, <2>1 DEF Minted
<1>4. TokensAreMinted'
  <2>1. \A n \in Name : Minted(store[n], renewals')
    BY <1>3 DEF HealsInv, SessionsInv, SessionsTypeOK, TokensAreMinted
  <2>2. ASSUME NEW p \in Proc
        PROVE  Minted(op[p].s, renewals') /\ \A n \in Name : Minted(op[p].local[n], renewals')
    <3>1. op[p].s \in Record \union {None} /\ op[p].local \in [Name -> Record \union {None}]
      BY DEF HealsInv, SessionsInv, SessionsTypeOK, Operation
    <3>2. QED BY <1>3, <3>1 DEF HealsInv, TokensAreMinted
  <2>3. QED BY <1>1, <2>1, <2>2 DEF TokensAreMinted
<1>5. ASSUME NEW p \in Proc \ raced, op[p].kind = "exec"
      PROVE  Healing(op[p], store[op[p].name], assigned', renewals', tok')
  <2>1. CopyIsRight(op[p], assigned, born) /\ RightRecords(op[p].local, born) /\ Right(op[p].name, op[p].s, born)
    BY <1>5, OperationIsSound DEF HealsInv, Sound, Kinds
  <2>2. Healing(op[p], store[op[p].name], assigned, renewals, tok)
    BY <1>5 DEF HealsInv, CopiesAreCurrent
  <2>3. QED BY <1>1, <1>2, <2>1, <2>2, HealingStays
<1>6. CopiesAreCurrent'
  BY <1>1, <1>5 DEF CopiesAreCurrent
<1>7. QED BY <1>4, <1>6

LEMMA NothingIsMinted ==
  /\ \A k : Minted(None, k) /\ \A n \in Name : Minted(NoRecords[n], k)
  /\ NoOp.s = None /\ NoOp.local = NoRecords /\ NoOp.kind = "none"
  /\ Listing.s = None /\ Listing.local = NoRecords /\ Listing.kind = "list"
BY DEF Minted, NoRecords, NoOp, Listing

LEMMA MintedHere ==
  ASSUME HealsInv, NEW p \in Proc
  PROVE  /\ Minted(op[p].s, renewals) /\ \A n \in Name : Minted(op[p].local[n], renewals)
         /\ \A n \in Name : Minted(store[n], renewals)
         /\ \A m \in Machine : tok[m] <= renewals
BY DEF HealsInv, TokensAreMinted, SessionsInv

\* What is no execution has only its tokens to vouch for.
LEMMA HealsNew ==
  ASSUME HealsInv, NEW p \in Proc, NewStored(p) \/ \E m \in Machine : NewSession(p, m)
  PROVE  TokensAreMinted' /\ CopiesAreCurrent'
<1>1. ASSUME NEW m \in Machine, NewSession(p, m) PROVE TokensAreMinted' /\ CopiesAreCurrent'
  <2> DEFINE o == [NoOp EXCEPT !.kind = "new", !.pc = "put", !.name = m]
  <2>1. /\ GoTo(p, o) /\ UNCHANGED <<tok, renewals, store, raced>>
        /\ assigned' = assigned \union {m} /\ m \notin born
    BY <1>1 DEF NewSession, Same
  <2>2. o.s = None /\ o.local = NoRecords /\ o.kind = "new"
    BY DEF NoOp
  <2> HIDE DEF o
  <2>3. QED BY <2>1, <2>2, NothingIsMinted, HealsQuietly
<1>2. CASE NewStored(p)
  <2> DEFINE m == op[p].name
             r == [ep |-> m, tok |-> tok[m], running |-> FALSE]
  <2>1. GoTo(p, NoOp) /\ Write(p, m, r) /\ UNCHANGED server /\ op[p].kind = "new"
    BY <1>2 DEF NewStored, At
  <2>2. m \in Machine
    BY <2>1, OperationIsSound DEF HealsInv, Sound, SessionsInv, SessionsTypeOK
  <2>3. Minted(r, renewals)
    BY <2>2, MintedHere DEF Minted
  <2> HIDE DEF r, m
  <2>4. QED BY <2>1, <2>3, NothingIsMinted, HealsWriting
<1>3. QED BY <1>1, <1>2

LEMMA HealsLists ==
  ASSUME HealsInv, NEW p \in Proc, List(p) \/ Snapshot(p) \/ ListFails(p) \/ Assignments(p)
  PROVE  TokensAreMinted' /\ CopiesAreCurrent'
<1>1. UNCHANGED <<server, store, raced>>
  BY DEF List, Snapshot, ListFails, Assignments, Same
<1>2. CASE List(p) \/ ListFails(p)
  <2>1. GoTo(p, Listing) \/ GoTo(p, NoOp)
    BY <1>2 DEF List, ListFails, Listing
  <2>2. QED BY <1>1, <2>1, NothingIsMinted, HealsQuietly DEF server
<1>3. CASE Snapshot(p)
  <2> DEFINE o == [op[p] EXCEPT !.pc = "ask", !.local = store]
  <2>1. op[p].kind = "list" /\ GoTo(p, o)
    BY <1>3 DEF Snapshot, At
  <2>2. o.s = op[p].s /\ o.local = store /\ o.kind = "list"
    BY <2>1, OperationIsSound DEF HealsInv, Operation
  <2> HIDE DEF o
  <2>3. QED BY <1>1, <2>1, <2>2, MintedHere, HealsQuietly DEF server
<1>4. CASE Assignments(p)
  <2>1. op[p].kind = "list" /\ op[p] \in Operation
    BY <1>4, OperationIsSound DEF Assignments, At, HealsInv
  <2>2. PICK f \in Known(op[p].local) :
          GoTo(p, [op[p] EXCEPT !.pc = "put", !.byep = Part(f, assigned), !.left = assigned,
                     !.local = Part(@, {f[m] : m \in assigned}),
                     !.gone = {n \in Name : op[p].local[n] # None /\ op[p].local[n].ep \notin assigned}])
    BY <1>4 DEF Assignments
  <2> DEFINE local == Part(op[p].local, {f[m] : m \in assigned})
             o == [op[p] EXCEPT !.pc = "put", !.byep = Part(f, assigned), !.left = assigned, !.local = local,
                     !.gone = {n \in Name : op[p].local[n] # None /\ op[p].local[n].ep \notin assigned}]
  <2>3. \A n \in Name : Minted(local[n], renewals)
    <3>1. \A n \in Name : local[n] \in {op[p].local[n], None}
      BY <2>1 DEF Part, Operation
    <3>2. QED BY <3>1, MintedHere, NothingIsMinted
  <2>4. GoTo(p, o)
    BY <2>2
  <2> HIDE DEF local
  <2>5. o.s = op[p].s /\ o.local = local /\ o.kind = "list"
    BY <2>1 DEF Operation
  <2> HIDE DEF o
  <2>6. QED BY <1>1, <2>3, <2>4, <2>5, MintedHere, HealsQuietly DEF server
<1>5. QED BY <1>2, <1>3, <1>4

LEMMA HealsListPut ==
  ASSUME HealsInv, NEW p \in Proc, NEW m \in Machine, ListPut(p, m)
  PROVE  TokensAreMinted' /\ CopiesAreCurrent'
<1> DEFINE z == op[p]
           n == IF z.byep[m] = None THEN z.count + 1 ELSE z.byep[m]
           r == IF z.byep[m] = None THEN [ep |-> m, tok |-> tok[m], running |-> FALSE]
                ELSE [z.local[n] EXCEPT !.tok = tok[m]]
           rest == z.left \ {m}
           put == [z.local EXCEPT ![n] = r]
           local == Part(put, {z.byep[x] : x \in rest})
           byep == Part(z.byep, rest)
           count == IF z.byep[m] = None THEN z.count + 1 ELSE z.count
           o == [z EXCEPT !.left = rest, !.byep = byep, !.gone = z.gone \ {n}, !.local = local, !.count = count]
<1>1. z.kind = "list" /\ z.pc = "put" /\ m \in z.left /\ Write(p, n, r) /\ UNCHANGED server /\ GoTo(p, o)
  BY DEF ListPut, At
<1>2. /\ z \in Operation /\ ListingIsRight(z, assigned, born) /\ z.local \in [Name -> Record \union {None}]
      /\ z.byep \in [Machine -> Name \union {None}]
  BY <1>1, OperationIsSound DEF HealsInv, Operation
<1>3. Minted(r, renewals)
  <2>1. CASE z.byep[m] = None
    BY <2>1, MintedHere DEF Minted
  <2>2. CASE z.byep[m] # None
    <3>1. n \in Name /\ z.local[n] # None /\ r = [z.local[n] EXCEPT !.tok = tok[m]]
      BY <1>1, <1>2, <2>2 DEF ListingIsRight
    <3>2. r.tok = tok[m]
      BY <1>2, <3>1 DEF Record
    <3>3. QED BY <3>2, MintedHere DEF Minted
  <2>3. QED BY <2>1, <2>2
<1> HIDE DEF n, r
<1>4. \A x \in Name : Minted(put[x], renewals)
  BY <1>2, <1>3, MintedHere
<1>5. DOMAIN put = Name
  BY <1>2
<1> HIDE DEF put
<1>6. \A x \in Name : Minted(local[x], renewals)
  <2>1. \A x \in Name : local[x] \in {put[x], None}
    BY <1>5 DEF Part
  <2>2. QED BY <1>4, <2>1, NothingIsMinted
<1> HIDE DEF local, byep, count, rest
<1>7. o.s = z.s /\ o.local = local /\ o.kind = "list"
  BY <1>1, <1>2 DEF Operation
<1> HIDE DEF o
<1>8. QED BY <1>1, <1>3, <1>6, <1>7, MintedHere, HealsWriting

LEMMA HealsEnds ==
  ASSUME HealsInv, NEW p \in Proc, Listed(p) \/ OpEnds(p) \/ \E n \in Name : ListDrop(p, n)
  PROVE  TokensAreMinted' /\ CopiesAreCurrent'
<1>1. CASE Listed(p) \/ OpEnds(p)
  <2>1. UNCHANGED <<server, store>> /\ raced \ {p} \subseteq raced' /\ Ends(p, op[p])
    BY <1>1 DEF Listed, OpEnds, Same
  <2>2. GoTo(p, Listing) \/ GoTo(p, NoOp)
    BY <2>1 DEF Ends, Listing
  <2>3. QED BY <2>1, <2>2, NothingIsMinted, HealsQuietly DEF server
<1>2. ASSUME NEW n \in Name, ListDrop(p, n) PROVE TokensAreMinted' /\ CopiesAreCurrent'
  <2> DEFINE o == [op[p] EXCEPT !.gone = @ \ {n}]
  <2>1. op[p].kind = "list" /\ Write(p, n, None) /\ GoTo(p, o) /\ UNCHANGED server
    BY <1>2 DEF ListDrop, At
  <2>2. o.kind = "list" /\ o.local = op[p].local /\ o.s = op[p].s
    BY <2>1, OperationIsSound DEF HealsInv, Operation
  <2> HIDE DEF o
  <2>3. QED BY <2>1, <2>2, MintedHere, NothingIsMinted, HealsWriting
<1>3. QED BY <1>1, <1>2

LEMMA HealsBegin ==
  ASSUME HealsInv, NEW p \in Proc, NEW k \in Kinds, NEW n \in Name, Begin(p, k, n)
  PROVE  TokensAreMinted' /\ CopiesAreCurrent'
<1> DEFINE o == [NoOp EXCEPT !.kind = k, !.pc = "get", !.name = n, !.stage = IF k = "refresh" THEN "heal" ELSE "first"]
<1>1. GoTo(p, o) /\ UNCHANGED <<server, store>> /\ raced' = raced \ {p}
  BY DEF Begin
<1>2. /\ o.kind = k /\ o.pc = "get" /\ o.s = None /\ o.local = NoRecords /\ ~o.failed /\ ~o.healed
      /\ k = "exec" => o.stage = "first"
  BY DEF NoOp
<1> HIDE DEF o
<1>3. o.kind = "exec" => Healing(o, store[o.name], assigned', renewals, tok)
  BY <1>2 DEF Healing, Heals
<1>4. QED BY <1>1, <1>2, <1>3, NothingIsMinted, HealsQuietly DEF server

\* What an operation knows when it has loaded the record s.
GoesOnWith(w, o, s, k) ==
  /\ Minted(w.s, k) /\ \A n \in Name : Minted(w.local[n], k)
  /\ w.kind = "exec" =>
        /\ o.kind = "exec" /\ w.name = o.name /\ w.stage = o.stage
        /\ w.healed = o.healed /\ w.failed = o.failed /\ (w.lost <=> o.lost)
        /\ o.stage = "last" => w.pc = "unmark" /\ w.s = o.s
        /\ o.stage = "reheal" => w.pc = "run" /\ w.s = s
        /\ o.stage \in {"first", "heal"} => w.pc = "mark" /\ w.s = s

LEMMA LoadedKnows ==
  ASSUME NEW o \in Operation, o.kind # "exec" => o.stage \in {"first", "heal"}, NEW s \in Record, NEW k,
         Minted(o.s, k), Minted(s, k), \A n \in Name : Minted(o.local[n], k),
         NEW w, w = Loaded(o, s)
  PROVE  w \in Operation /\ GoesOnWith(w, o, s, k)
<1> DEFINE b == Loaded(o, s)
           Says == b \in Operation /\ GoesOnWith(b, o, s, k)
<1>1. ASSUME o.stage = "last" PROVE Says
  <2>1. b = [o EXCEPT !.pc = "unmark"]
    BY <1>1 DEF Loaded
  <2> HIDE DEF b
  <2>2. /\ b \in Operation /\ b.kind = o.kind /\ b.name = o.name /\ b.stage = o.stage /\ b.s = o.s
        /\ b.healed = o.healed /\ b.failed = o.failed /\ b.lost = o.lost /\ b.local = o.local /\ b.pc = "unmark"
    BY <2>1 DEF Operation
  <2>3. QED BY <1>1, <2>2 DEF GoesOnWith
<1>2. ASSUME o.stage = "reheal" PROVE Says
  <2>1. b = [o EXCEPT !.pc = "run", !.s = s]
    BY <1>2 DEF Loaded
  <2> HIDE DEF b
  <2>2. /\ b \in Operation /\ b.kind = o.kind /\ b.name = o.name /\ b.stage = o.stage /\ b.s = s
        /\ b.healed = o.healed /\ b.failed = o.failed /\ b.lost = o.lost /\ b.local = o.local /\ b.pc = "run"
    BY <2>1 DEF Operation
  <2>3. QED BY <1>2, <2>2 DEF GoesOnWith
<1>3. ASSUME o.stage \in {"first", "heal"} /\ o.kind = "refresh" PROVE Says
  <2>1. b = NoOp
    BY <1>3 DEF Loaded
  <2> HIDE DEF b
  <2>2. b \in Operation /\ b.s = None /\ b.local = NoRecords /\ b.kind = "none"
    BY <2>1, IdleIsSound DEF NoOp
  <2>3. QED BY <2>2, NothingIsMinted DEF GoesOnWith
<1>4. ASSUME o.stage \in {"first", "heal"} /\ o.kind = "stop" PROVE Says
  <2>1. b = [o EXCEPT !.pc = "unassign", !.s = s]
    BY <1>4 DEF Loaded
  <2> HIDE DEF b
  <2>2. /\ b \in Operation /\ b.kind = o.kind /\ b.name = o.name /\ b.stage = o.stage /\ b.s = s
        /\ b.healed = o.healed /\ b.failed = o.failed /\ b.lost = o.lost /\ b.local = o.local /\ b.pc = "unassign"
    BY <2>1 DEF Operation
  <2>3. QED BY <1>4, <2>2 DEF GoesOnWith
<1>5. ASSUME o.stage \in {"first", "heal"} /\ o.kind \notin {"refresh", "stop"} PROVE Says
  <2>1. b = [o EXCEPT !.pc = "mark", !.s = s]
    BY <1>5 DEF Loaded
  <2> HIDE DEF b
  <2>2. /\ b \in Operation /\ b.kind = o.kind /\ b.name = o.name /\ b.stage = o.stage /\ b.s = s
        /\ b.healed = o.healed /\ b.failed = o.failed /\ b.lost = o.lost /\ b.local = o.local /\ b.pc = "mark"
    BY <2>1 DEF Operation
  <2>3. QED BY <1>5, <2>2 DEF GoesOnWith
<1>6. Says
  BY <1>1, <1>2, <1>3, <1>4, <1>5 DEF Operation, Heals
<1>7. QED BY <1>6

\* And when it has not.
GoesOnWithout(w, o, k) ==
  /\ Minted(w.s, k) /\ \A n \in Name : Minted(w.local[n], k)
  /\ w.kind = o.kind /\ w.name = o.name /\ w.s = o.s /\ w.healed = o.healed
  /\ w.failed => o.failed \/ o.stage # "last"
  /\ o.lost => w.lost
  /\ o.stage = "reheal" => w.pc = "get" /\ w.stage = "last"
  /\ o.stage # "reheal" => w.pc = "end" /\ w.stage = o.stage

LEMMA NotLoadedKnows ==
  ASSUME NEW o \in Operation, NEW k, Minted(o.s, k), \A n \in Name : Minted(o.local[n], k),
         NEW b, b = NotLoaded(o)
  PROVE  b \in Operation /\ GoesOnWithout(b, o, k)
<1> DEFINE f == o.failed \/ o.stage # "last"
<1>1. f \in BOOLEAN /\ (f => o.failed \/ o.stage # "last")
  OBVIOUS
<1>2. b = IF o.stage = "reheal" THEN [o EXCEPT !.pc = "get", !.stage = "last", !.failed = TRUE]
          ELSE [o EXCEPT !.pc = "end", !.failed = f]
  BY DEF NotLoaded
<1> HIDE DEF f
<1>3. /\ b \in Operation /\ b.kind = o.kind /\ b.name = o.name /\ b.s = o.s /\ b.healed = o.healed
      /\ b.local = o.local /\ b.lost = o.lost
      /\ o.stage = "reheal" => b.pc = "get" /\ b.stage = "last"
      /\ o.stage # "reheal" => b.pc = "end" /\ b.stage = o.stage
      /\ b.failed => o.failed \/ o.stage # "last"
  <2>1. ASSUME o.stage = "reheal", NEW c, c = [o EXCEPT !.pc = "get", !.stage = "last", !.failed = TRUE]
        PROVE  /\ c \in Operation /\ c.kind = o.kind /\ c.name = o.name /\ c.s = o.s /\ c.healed = o.healed
               /\ c.local = o.local /\ c.lost = o.lost /\ c.pc = "get" /\ c.stage = "last"
    BY <2>1 DEF Operation
  <2>2. ASSUME o.stage # "reheal", NEW c, c = [o EXCEPT !.pc = "end", !.failed = f]
        PROVE  /\ c \in Operation /\ c.kind = o.kind /\ c.name = o.name /\ c.s = o.s /\ c.healed = o.healed
               /\ c.local = o.local /\ c.lost = o.lost /\ c.pc = "end" /\ c.stage = o.stage /\ c.failed = f
    BY <1>1, <2>2 DEF Operation
  <2>3. CASE o.stage = "reheal"
    BY <1>2, <2>1, <2>3
  <2>4. CASE o.stage # "reheal"
    BY <1>1, <1>2, <2>2, <2>4
  <2>5. QED BY <2>3, <2>4
<1>4. QED BY <1>3 DEF GoesOnWithout

\* The copy made by the load goes, be it that the request was lost.
Forgets(w, b) ==
  /\ w.kind = b.kind /\ w.name = b.name /\ w.pc = b.pc /\ w.s = b.s /\ w.stage = b.stage
  /\ w.healed = b.healed /\ w.failed = b.failed /\ w.local = NoRecords
  /\ b.lost => w.lost

LEMMA ForgettingKnows ==
  ASSUME NEW o, NEW k, NEW b, GoesOnWithout(b, o, k), NEW w, Forgets(w, b)
  PROVE  GoesOnWithout(w, o, k)
<1>1. \A n \in Name : Minted(w.local[n], k)
  BY NothingIsMinted DEF Forgets
<1>2. QED BY <1>1 DEF GoesOnWithout, Forgets

LEMMA ForgettingKnowsRecord ==
  ASSUME NEW o, NEW s, NEW k, NEW b, GoesOnWith(b, o, s, k), NEW w, Forgets(w, b), w.lost <=> b.lost
  PROVE  GoesOnWith(w, o, s, k)
<1>1. \A n \in Name : Minted(w.local[n], k)
  BY NothingIsMinted DEF Forgets
<1>2. QED BY <1>1 DEF GoesOnWith, Forgets

\* What an operation that is not new, listing or idle rests on.
LEMMA Knowing ==
  ASSUME HealsInv, NEW p \in Proc, op[p].kind \in Kinds
  PROVE  /\ op[p] \in Operation /\ op[p].name \in Name /\ CopyIsRight(op[p], assigned, born)
         /\ op[p].kind # "exec" => op[p].stage \in {"first", "heal"}
         /\ op[p].kind = "exec" /\ p \notin raced => Healing(op[p], store[op[p].name], assigned, renewals, tok)
         /\ renewals \in Nat /\ tok \in [Machine -> 0 .. MaxRenewals]
         /\ store \in [Name -> Record \union {None}]
         /\ op[p].s \in Record \union {None} /\ op[p].local \in [Name -> Record \union {None}]
         /\ op[p].stage \in {"first", "last"} \union Heals
<1>1. op[p] \in Operation /\ op[p].name \in Name /\ CopyIsRight(op[p], assigned, born)
  BY OperationIsSound DEF HealsInv
<1>2. /\ renewals \in Nat /\ tok \in [Machine -> 0 .. MaxRenewals]
      /\ store \in [Name -> Record \union {None}]
  BY SessionsAssumption DEF HealsInv, SessionsInv, SessionsTypeOK
<1>3. op[p].kind = "exec" /\ p \notin raced => Healing(op[p], store[op[p].name], assigned, renewals, tok)
  BY DEF HealsInv, CopiesAreCurrent
<1>4. QED BY <1>1, <1>2, <1>3 DEF CopyIsRight, Operation

LEMMA HealsGet ==
  ASSUME HealsInv, NEW p \in Proc, Get(p) PROVE TokensAreMinted' /\ CopiesAreCurrent'
<1> DEFINE z == op[p]
           s == store[z.name]
           o == [z EXCEPT !.pc = "look", !.local[z.name] = s]
<1>1. z.kind \in Kinds /\ z.pc = "get" /\ UNCHANGED <<server, store, raced>>
  BY DEF Get, Same
<1>2. /\ z \in Operation /\ z.name \in Name /\ (z.kind # "exec" => z.stage \in {"first", "heal"})
      /\ z.local \in [Name -> Record \union {None}] /\ s \in Record \union {None}
      /\ z.kind = "exec" /\ p \notin raced => Healing(z, s, assigned, renewals, tok)
      /\ z.stage \in {"first", "last"} \union Heals
  BY <1>1, Knowing
<1>3. /\ Minted(z.s, renewals) /\ Minted(s, renewals) /\ \A n \in Name : Minted(z.local[n], renewals)
  BY <1>2, MintedHere
<1> HIDE DEF s
<1>4. CASE s = None /\ GoTo(p, NotLoaded(z))
  <2>1. PICK w : w = NotLoaded(z)
    OBVIOUS
  <2>2. GoesOnWithout(w, z, renewals)
    BY <1>2, <1>3, <2>1, NotLoadedKnows
  <2>3. w.kind = "exec" /\ p \notin raced => Healing(w, s, assigned, renewals, tok)
    BY <1>1, <1>2, <1>4, <2>2 DEF Healing, Heals, GoesOnWithout
  <2>4. GoTo(p, w) /\ assigned' = assigned /\ raced' = raced /\ UNCHANGED <<tok, renewals, store>> /\ store[w.name] = s
    BY <1>1, <1>4, <2>1, <2>2 DEF server, s, GoesOnWithout
  <2>5. QED BY <2>2, <2>3, <2>4, HealsQuietly DEF GoesOnWithout
<1>5. CASE s # None /\ z.stage \notin Heals /\ GoTo(p, Loaded(z, s))
  <2>1. PICK w : w = Loaded(z, s)
    OBVIOUS
  <2>2. GoesOnWith(w, z, s, renewals)
    BY <1>2, <1>3, <1>5, <2>1, LoadedKnows
  <2>3. w.kind = "exec" /\ p \notin raced => Healing(w, s, assigned, renewals, tok)
    BY <1>1, <1>2, <1>5, <2>2 DEF Healing, Heals, GoesOnWith
  <2>4. /\ GoTo(p, w) /\ assigned' = assigned /\ raced' = raced /\ UNCHANGED <<tok, renewals, store>>
        /\ w.kind = "exec" => store[w.name] = s
    BY <1>1, <1>5, <2>1, <2>2 DEF server, s, GoesOnWith
  <2>5. QED BY <2>2, <2>3, <2>4, HealsQuietly DEF GoesOnWith
<1>6. CASE s # None /\ GoTo(p, o)
  <2> DEFINE local == [z.local EXCEPT ![z.name] = s]
  <2>1. local[z.name] = s /\ \A n \in Name : Minted(local[n], renewals)
    BY <1>2, <1>3
  <2>2. o = [z EXCEPT !.pc = "look", !.local = local]
    BY <1>2 DEF Operation
  <2> HIDE DEF local, o
  <2>3. /\ o.kind = z.kind /\ o.pc = "look" /\ o.local = local /\ o.s = z.s /\ o.name = z.name
        /\ o.stage = z.stage /\ o.healed = z.healed /\ o.failed = z.failed /\ o.lost = z.lost
    BY <1>2, <2>2 DEF Operation
  <2>4. o.kind = "exec" /\ p \notin raced => Healing(o, s, assigned, renewals, tok)
    BY <1>1, <1>2, <2>1, <2>3 DEF Healing, Heals
  <2>5. GoTo(p, o) /\ assigned' = assigned /\ raced' = raced /\ UNCHANGED <<tok, renewals, store>> /\ store[o.name] = s
    BY <1>1, <1>6, <2>3 DEF server, s
  <2>6. QED BY <1>3, <2>1, <2>3, <2>4, <2>5, HealsQuietly
<1>7. QED BY <1>4, <1>5, <1>6 DEF Get, s

LEMMA HealsLook ==
  ASSUME HealsInv, NEW p \in Proc, Look(p) \/ LookFails(p) PROVE TokensAreMinted' /\ CopiesAreCurrent'
<1> DEFINE z == op[p]
           r == store[z.name]
           s == z.local[z.name]
           fresh == [s EXCEPT !.tok = tok[s.ep]]
<1>1. z.pc = "look" /\ UNCHANGED <<server, store, raced>> /\ z.kind \in Kinds
  BY OperationIsSound DEF Look, LookFails, Same, HealsInv
<1>2. /\ z \in Operation /\ z.name \in Name
      /\ z.local \in [Name -> Record \union {None}] /\ s \in Record
      /\ z.kind = "exec" /\ p \notin raced => Healing(z, r, assigned, renewals, tok)
      /\ tok \in [Machine -> 0 .. MaxRenewals]
  BY <1>1, Knowing DEF CopyIsRight
<1>3. Minted(z.s, renewals) /\ \A n \in Name : Minted(z.local[n], renewals)
  BY MintedHere
<1>4. fresh \in Record /\ fresh.ep = s.ep /\ fresh.tok = tok[s.ep] /\ Minted(fresh, renewals)
  <2>1. s.ep \in Machine
    BY <1>2 DEF Record
  <2>2. fresh \in Record /\ fresh.ep = s.ep /\ fresh.tok = tok[s.ep]
    BY <1>2, <2>1 DEF Record
  <2>3. QED BY <2>1, <2>2, MintedHere DEF Minted
<1>5. assigned' = assigned /\ raced' = raced /\ UNCHANGED <<tok, renewals, store>>
  BY <1>1 DEF server
<1> HIDE DEF r
<1>6. CASE s.ep \notin assigned /\ GoTo(p, [z EXCEPT !.pc = "drop"])
  <2> DEFINE o == [z EXCEPT !.pc = "drop"]
  <2>1. /\ o.kind = z.kind /\ o.pc = "drop" /\ o.local = z.local /\ o.s = z.s /\ o.name = z.name
        /\ o.stage = z.stage /\ o.healed = z.healed /\ o.failed = z.failed /\ o.lost = z.lost
    BY <1>2 DEF Operation
  <2> HIDE DEF o
  <2>2. o.kind = "exec" /\ p \notin raced => Healing(o, r, assigned, renewals, tok)
    BY <1>1, <1>2, <1>6, <2>1 DEF Healing, Heals
  <2>3. GoTo(p, o) /\ store[o.name] = r
    BY <1>6, <2>1 DEF o, r
  <2>4. QED BY <1>3, <1>5, <2>1, <2>2, <2>3, HealsQuietly
<1>7. ASSUME NEW w, GoTo(p, w),
             \/ w = [NotLoaded(z) EXCEPT !.local = NoRecords] /\ z.stage \in Heals /\ fresh = s
             \/ w = [NotLoaded(z) EXCEPT !.local = NoRecords, !.lost = TRUE]
      PROVE  TokensAreMinted' /\ CopiesAreCurrent'
  <2> HIDE DEF fresh
  <2>1. GoesOnWithout(w, z, renewals) /\ (w.lost \/ (z.stage \in Heals /\ fresh = s))
    <3>1. PICK b : b = NotLoaded(z)
      OBVIOUS
    <3>2. b \in Operation /\ GoesOnWithout(b, z, renewals)
      BY <1>2, <1>3, <3>1, NotLoadedKnows
    <3>3. CASE w = [b EXCEPT !.local = NoRecords] /\ z.stage \in Heals /\ fresh = s
      <4>1. Forgets(w, b)
        BY <3>2, <3>3 DEF Operation, Forgets
      <4>2. GoesOnWithout(w, z, renewals)
        BY <3>2, <4>1, ForgettingKnows
      <4>3. QED BY <3>3, <4>2
    <3>4. CASE w = [b EXCEPT !.local = NoRecords, !.lost = TRUE]
      <4>1. Forgets(w, b) /\ w.lost
        BY <3>2, <3>4 DEF Operation, Forgets
      <4>2. GoesOnWithout(w, z, renewals)
        BY <3>2, <4>1, ForgettingKnows
      <4>3. QED BY <4>1, <4>2
    <3>5. QED BY <1>7, <3>1, <3>3, <3>4
  <2>2. ASSUME w.kind = "exec", p \notin raced
        PROVE  w.lost \/ w.s = None \/ w.s.ep \notin assigned \/ renewals > 1 \/ ~w.failed
    <3>1. CASE w.lost
      BY <3>1
    <3>2. CASE ~w.lost
      <4>1. z.stage \in Heals /\ fresh = s
        BY <2>1, <3>2
      <4>2. z.s = s /\ Decided(z.s, FALSE, assigned, renewals, tok)
        BY <1>1, <1>2, <2>1, <2>2, <4>1 DEF Healing, GoesOnWithout
      <4>3. renewals \in Nat
        BY <1>1, Knowing
      <4>4. s.tok = tok[s.ep]
        BY <1>4, <4>1
      <4>5. QED BY <2>1, <4>2, <4>3, <4>4 DEF Decided, GoesOnWithout
    <3>3. QED BY <3>1, <3>2
  <2>3. w.kind = "exec" /\ p \notin raced => Healing(w, r, assigned, renewals, tok)
    BY <1>1, <1>2, <2>1, <2>2 DEF Healing, Heals, GoesOnWithout
  <2>4. store[w.name] = r
    BY <2>1 DEF r, GoesOnWithout
  <2>5. QED BY <1>5, <1>7, <2>1, <2>3, <2>4, HealsQuietly DEF GoesOnWithout
<1>8. CASE GoTo(p, [z EXCEPT !.pc = "put", !.local[z.name] = fresh])
  <2> DEFINE local == [z.local EXCEPT ![z.name] = fresh]
             o == [z EXCEPT !.pc = "put", !.local[z.name] = fresh]
  <2>1. local[z.name] = fresh /\ \A n \in Name : Minted(local[n], renewals)
    BY <1>2, <1>3, <1>4
  <2>2. o = [z EXCEPT !.pc = "put", !.local = local]
    BY <1>2 DEF Operation
  <2>3. GoTo(p, o)
    BY <1>8
  <2> HIDE DEF local, o, fresh
  <2>4. /\ o.kind = z.kind /\ o.pc = "put" /\ o.local = local /\ o.s = z.s /\ o.name = z.name
        /\ o.stage = z.stage /\ o.healed = z.healed /\ o.failed = z.failed /\ o.lost = z.lost
    BY <1>2, <2>2 DEF Operation
  <2>5. ASSUME z.kind = "exec", p \notin raced, z.stage \in Heals
        PROVE  Decided(fresh, TRUE, assigned, renewals, tok)
    <3>1. z.s = s /\ Decided(z.s, FALSE, assigned, renewals, tok)
      BY <1>1, <1>2, <2>5 DEF Healing
    <3>2. QED BY <1>4, <3>1 DEF Decided
  <2>6. o.kind = "exec" /\ p \notin raced => Healing(o, r, assigned, renewals, tok)
    BY <1>1, <1>2, <2>1, <2>4, <2>5 DEF Healing, Heals
  <2>7. store[o.name] = r
    BY <2>4 DEF r
  <2>8. QED BY <1>3, <1>5, <2>1, <2>3, <2>4, <2>6, <2>7, HealsQuietly
<1>9. CASE LookFails(p)
  BY <1>7, <1>9 DEF LookFails
<1>10. CASE Look(p)
  BY <1>6, <1>7, <1>8, <1>10 DEF Look
<1>11. QED BY <1>9, <1>10

LEMMA HealsFresh ==
  ASSUME HealsInv, NEW p \in Proc, FreshPut(p) \/ FreshDrop(p) PROVE TokensAreMinted' /\ CopiesAreCurrent'
<1> DEFINE z == op[p]
           s == z.local[z.name]
<1>1. z.pc \in {"put", "drop"} /\ z.kind \in Kinds /\ UNCHANGED server
  BY OperationIsSound DEF FreshPut, FreshDrop, HealsInv
<1>2. /\ z \in Operation /\ z.name \in Name /\ (z.kind # "exec" => z.stage \in {"first", "heal"})
      /\ z.kind = "exec" /\ p \notin raced => Healing(z, store[z.name], assigned, renewals, tok)
      /\ z.stage \in {"first", "last"} \union Heals /\ CopyIsRight(z, assigned, born)
      /\ s \in Record \union {None}
  BY <1>1, Knowing
<1>3. Minted(z.s, renewals) /\ Minted(s, renewals) /\ \A n \in Name : Minted(z.local[n], renewals)
  BY <1>2, MintedHere
<1>4. Minted(None, renewals)
  BY DEF Minted
<1>5. CASE FreshPut(p)
  <2>1. z.pc = "put" /\ Write(p, z.name, s)
    BY <1>5 DEF FreshPut
  <2>2. PICK b : b = Loaded(z, s)
    OBVIOUS
  <2>3. PICK w : w = [b EXCEPT !.local = NoRecords] /\ GoTo(p, w)
    BY <1>5, <2>2 DEF FreshPut
  <2>4. s \in Record /\ s # None /\ s = z.local[z.name]
    BY <1>1, <1>2, <2>1, RecordAssumption DEF CopyIsRight
  <2> HIDE DEF s
  <2>41. b \in Operation /\ GoesOnWith(b, z, s, renewals)
    BY <1>2, <1>3, <2>2, <2>4, LoadedKnows
  <2>42. Forgets(w, b) /\ (w.lost <=> b.lost)
    BY <2>3, <2>41 DEF Operation, Forgets
  <2>5. GoesOnWith(w, z, s, renewals)
    BY <2>41, <2>42, ForgettingKnowsRecord
  <2>6. w.kind = "exec" /\ p \notin raced => Healing(w, s, assigned, renewals, tok)
    BY <1>2, <2>1, <2>4, <2>5 DEF Healing, Heals, GoesOnWith
  <2>7. /\ GoTo(p, w) /\ Minted(w.s, renewals) /\ \A n \in Name : Minted(w.local[n], renewals)
        /\ w.kind = "exec" => z.name = w.name /\ z.name \in Name
    BY <1>2, <2>3, <2>5 DEF GoesOnWith
  <2>8. QED BY <1>1, <1>3, <2>1, <2>6, <2>7, HealsWriting
<1>6. CASE FreshDrop(p)
  <2>1. z.pc = "drop" /\ Write(p, z.name, None)
    BY <1>6 DEF FreshDrop
  <2>2. PICK b : b = NotLoaded(z)
    OBVIOUS
  <2>3. PICK w : w = [b EXCEPT !.local = NoRecords] /\ GoTo(p, w)
    BY <1>6, <2>2 DEF FreshDrop
  <2>4. b \in Operation /\ GoesOnWithout(b, z, renewals)
    BY <1>2, <1>3, <2>2, NotLoadedKnows
  <2>5. Forgets(w, b)
    BY <2>3, <2>4 DEF Operation, Forgets
  <2>6. GoTo(p, w)
    BY <2>3
  <2>7. GoesOnWithout(w, z, renewals)
    BY <2>4, <2>5, ForgettingKnows
  <2>8. w.kind = "exec" /\ p \notin raced => Healing(w, None, assigned, renewals, tok)
    BY <1>1, <1>2, <2>1, <2>7 DEF Healing, Heals, GoesOnWithout
  <2>9. /\ Minted(w.s, renewals) /\ \A n \in Name : Minted(w.local[n], renewals)
        /\ w.kind = "exec" => z.name = w.name /\ z.name \in Name
    BY <1>2, <2>7 DEF GoesOnWithout
  <2>10. QED BY <1>1, <1>4, <2>1, <2>6, <2>8, <2>9, HealsWriting
<1>7. QED BY <1>5, <1>6

LEMMA HealsMark ==
  ASSUME HealsInv, NEW p \in Proc, Mark(p) PROVE TokensAreMinted' /\ CopiesAreCurrent'
<1> DEFINE z == op[p]
           s == [z.s EXCEPT !.running = @ \/ z.kind = "exec"]
           o1 == [z EXCEPT !.pc = "run", !.s = s, !.healed = FALSE]
           o2 == [z EXCEPT !.pc = "end"]
<1>1. z.pc = "mark" /\ z.kind \in Kinds /\ Write(p, z.name, s) /\ UNCHANGED server
      /\ GoTo(p, IF z.kind = "exec" THEN o1 ELSE o2)
  BY OperationIsSound DEF Mark, HealsInv
<1>2. /\ z \in Operation /\ z.name \in Name
      /\ z.kind = "exec" /\ p \notin raced => Healing(z, store[z.name], assigned, renewals, tok)
      /\ z.s \in Record
  BY <1>1, Knowing DEF CopyIsRight
<1>3. Minted(z.s, renewals) /\ \A n \in Name : Minted(z.local[n], renewals)
  BY MintedHere
<1>4. s \in Record /\ s.tok = z.s.tok
  <2>1. (z.s.running \/ z.kind = "exec") \in BOOLEAN
    OBVIOUS
  <2>2. QED BY <1>2, <2>1 DEF Record
<1>5. Minted(s, renewals)
  BY <1>2, <1>3, <1>4, RecordAssumption DEF Minted
<1> HIDE DEF s
<1>6. CASE z.kind = "exec"
  <2>1. /\ o1.kind = z.kind /\ o1.name = z.name /\ o1.local = z.local /\ o1.s = s /\ o1.failed = z.failed
        /\ o1.pc = "run" /\ o1.stage = z.stage /\ ~o1.healed
    BY <1>2 DEF Operation
  <2>2. GoTo(p, o1)
    BY <1>1, <1>6
  <2> HIDE DEF o1
  <2>3. p \notin raced => Healing(o1, s, assigned, renewals, tok)
    BY <1>1, <1>2, <1>4, <1>6, <2>1, RecordAssumption DEF Healing, Heals
  <2>4. Minted(o1.s, renewals) /\ \A n \in Name : Minted(o1.local[n], renewals)
    BY <1>3, <1>5, <2>1
  <2>5. z.name = o1.name
    BY <2>1
  <2>6. QED BY <1>1, <1>2, <1>5, <2>2, <2>3, <2>4, <2>5, HealsWriting
<1>7. CASE z.kind # "exec"
  <2>1. o2.kind = z.kind /\ o2.local = z.local /\ o2.s = z.s
    BY <1>2 DEF Operation
  <2>2. GoTo(p, o2)
    BY <1>1, <1>7
  <2> HIDE DEF o2
  <2>3. o2.kind # "exec" /\ Minted(o2.s, renewals) /\ \A n \in Name : Minted(o2.local[n], renewals)
    BY <1>3, <1>7, <2>1
  <2>4. QED BY <1>1, <1>5, <2>2, <2>3, HealsWriting
<1>8. QED BY <1>6, <1>7

LEMMA HealsRefused ==
  ASSUME HealsInv, NEW p \in Proc, Refused(p) PROVE TokensAreMinted' /\ CopiesAreCurrent'
<1> DEFINE z == op[p]
           r == store[z.name]
           o1 == [z EXCEPT !.pc = "get", !.healed = TRUE, !.stage = IF z.pc = "mark" THEN "heal" ELSE "reheal"]
           o2 == [z EXCEPT !.pc = "get", !.stage = "last", !.failed = TRUE]
           o3 == [z EXCEPT !.pc = "end", !.failed = TRUE]
<1>1. /\ z.pc \in {"mark", "run"} /\ z.kind \in Kinds /\ UNCHANGED <<server, store, raced>>
      /\ z.s.ep \notin assigned \/ z.s.tok # tok[z.s.ep]
  BY OperationIsSound DEF Refused, Same, HealsInv, Accepted
<1>2. \/ ~z.healed /\ GoTo(p, o1)
      \/ z.healed /\ GoTo(p, o2)
      \/ z.healed /\ GoTo(p, o3)
  BY <1>1, OperationIsSound DEF Refused, HealsInv, Operation
<1>3. /\ z \in Operation /\ z.name \in Name
      /\ z.kind = "exec" /\ p \notin raced => Healing(z, r, assigned, renewals, tok)
      /\ z.s \in Record /\ z.s # None /\ renewals \in Nat /\ tok \in [Machine -> 0 .. MaxRenewals]
  BY <1>1, Knowing DEF CopyIsRight
<1>4. Minted(z.s, renewals) /\ \A n \in Name : Minted(z.local[n], renewals)
  BY MintedHere
<1>5. UNCHANGED <<assigned, tok, renewals, store>> /\ raced' = raced
  BY <1>1 DEF server
<1>6. z.s.ep \in Machine /\ z.s.tok \in Nat /\ tok[z.s.ep] \in Nat /\ tok[z.s.ep] <= renewals /\ z.s.tok <= renewals
  <2>1. z.s.ep \in Machine /\ z.s.tok \in 0 .. MaxRenewals
    BY <1>3 DEF Record
  <2>2. tok[z.s.ep] <= renewals
    BY <2>1 DEF HealsInv, SessionsInv
  <2>3. QED BY <1>3, <1>4, <2>1, <2>2, SessionsAssumption DEF Minted
<1>7. ASSUME z.kind = "exec", p \notin raced
      PROVE  /\ z.s = r /\ z.stage # "last" /\ ~z.failed /\ (z.stage = "first" => ~z.healed)
             /\ ~z.healed => Decided(z.s, FALSE, assigned, renewals, tok)
             /\ z.healed => z.s.ep \notin assigned \/ renewals > 1
  <2>1. /\ z.s = r /\ z.stage # "last" /\ ~z.failed /\ (z.stage = "first" => ~z.healed)
        /\ z.healed => Decided(z.s, TRUE, assigned, renewals, tok)
    BY <1>1, <1>3, <1>7 DEF Healing
  <2>2. Decided(z.s, FALSE, assigned, renewals, tok)
    BY <1>1, <1>3, <1>6 DEF Decided
  <2>3. QED BY <1>3, <2>1, <2>2 DEF Decided
<1> HIDE DEF r
<1>8. CASE ~z.healed /\ GoTo(p, o1)
  <2>1. /\ o1.kind = z.kind /\ o1.name = z.name /\ o1.local = z.local /\ o1.s = z.s /\ o1.failed = z.failed
        /\ o1.pc = "get" /\ o1.stage \in Heals
    BY <1>3 DEF Operation, Heals
  <2>2. GoTo(p, o1)
    BY <1>8
  <2> HIDE DEF o1
  <2>3. o1.kind = "exec" /\ p \notin raced => Healing(o1, r, assigned, renewals, tok)
    BY <1>3, <1>7, <1>8, <2>1 DEF Healing, Heals
  <2>4. store[o1.name] = r /\ Minted(o1.s, renewals) /\ \A n \in Name : Minted(o1.local[n], renewals)
    BY <1>4, <2>1 DEF r
  <2>5. QED BY <1>5, <2>2, <2>3, <2>4, HealsQuietly
<1>9. ASSUME z.healed, NEW o, GoTo(p, o), o.kind = z.kind, o.name = z.name, o.local = z.local, o.s = z.s,
             (o.pc = "get" /\ o.stage = "last") \/ (o.pc = "end" /\ o.stage = z.stage)
      PROVE  TokensAreMinted' /\ CopiesAreCurrent'
  <2>1. o.kind = "exec" /\ p \notin raced => Healing(o, r, assigned, renewals, tok)
    BY <1>3, <1>7, <1>9 DEF Healing, Heals
  <2>2. store[o.name] = r /\ Minted(o.s, renewals) /\ \A n \in Name : Minted(o.local[n], renewals)
    BY <1>4, <1>9 DEF r
  <2>3. QED BY <1>5, <1>9, <2>1, <2>2, HealsQuietly
<1>10. /\ o2.kind = z.kind /\ o2.name = z.name /\ o2.local = z.local /\ o2.s = z.s
       /\ o2.pc = "get" /\ o2.stage = "last"
  BY <1>3 DEF Operation
<1>11. /\ o3.kind = z.kind /\ o3.name = z.name /\ o3.local = z.local /\ o3.s = z.s
       /\ o3.pc = "end" /\ o3.stage = z.stage
  BY <1>3 DEF Operation
<1> HIDE DEF o1, o2, o3
<1>12. QED BY <1>2, <1>8, <1>9, <1>10, <1>11

LEMMA HealsRun ==
  ASSUME HealsInv, NEW p \in Proc, RunEnds(p) \/ Unmark(p) PROVE TokensAreMinted' /\ CopiesAreCurrent'
<1> DEFINE z == op[p]
           s == [z.s EXCEPT !.running = FALSE]
           o1 == [z EXCEPT !.pc = "get", !.stage = "last", !.s.running = FALSE]
           o2 == [z EXCEPT !.pc = "end"]
<1>1. z.pc \in {"run", "unmark"} /\ z.kind \in Kinds /\ UNCHANGED server
  BY OperationIsSound DEF RunEnds, Unmark, HealsInv
<1>2. /\ z \in Operation /\ z.name \in Name
      /\ z.kind = "exec" /\ p \notin raced => Healing(z, store[z.name], assigned, renewals, tok)
      /\ z.s \in Record
  BY <1>1, Knowing DEF CopyIsRight
<1>3. Minted(z.s, renewals) /\ \A n \in Name : Minted(z.local[n], renewals)
  BY MintedHere
<1>4. s.tok = z.s.tok
  BY <1>2 DEF Record
<1>5. Minted(s, renewals)
  BY <1>2, <1>3, <1>4, RecordAssumption DEF Minted
<1>6. CASE RunEnds(p)
  <2>1. z.pc = "run" /\ GoTo(p, o1) /\ UNCHANGED <<store, raced>>
    BY <1>6 DEF RunEnds, Same
  <2>2. o1 = [z EXCEPT !.pc = "get", !.stage = "last", !.s = s]
    BY <1>2 DEF Operation
  <2> HIDE DEF s, o1
  <2>3. /\ o1.kind = z.kind /\ o1.name = z.name /\ o1.local = z.local /\ o1.s = s /\ o1.failed = z.failed
        /\ o1.pc = "get" /\ o1.stage = "last"
    BY <1>2, <2>2 DEF Operation
  <2>4. o1.kind = "exec" /\ p \notin raced => Healing(o1, store[o1.name], assigned, renewals, tok)
    BY <1>2, <2>1, <2>3 DEF Healing, Heals
  <2>5. Minted(o1.s, renewals) /\ \A n \in Name : Minted(o1.local[n], renewals)
    BY <1>3, <1>5, <2>3
  <2>6. UNCHANGED <<assigned, tok, renewals, store>> /\ raced' = raced
    BY <1>1, <2>1 DEF server
  <2>7. QED BY <2>1, <2>4, <2>5, <2>6, HealsQuietly
<1>7. CASE Unmark(p)
  <2>1. z.pc = "unmark" /\ GoTo(p, o2) /\ Write(p, z.name, s)
    BY <1>7 DEF Unmark
  <2> HIDE DEF s
  <2>2. /\ o2.kind = z.kind /\ o2.name = z.name /\ o2.local = z.local /\ o2.s = z.s /\ o2.failed = z.failed
        /\ o2.pc = "end" /\ o2.stage = z.stage /\ o2.healed = z.healed /\ o2.lost = z.lost
    BY <1>2 DEF Operation
  <2> HIDE DEF o2
  <2>3. o2.kind = "exec" /\ p \notin raced => Healing(o2, s, assigned, renewals, tok)
    BY <1>2, <2>2 DEF Healing, Heals
  <2>4. /\ Minted(o2.s, renewals) /\ \A n \in Name : Minted(o2.local[n], renewals)
        /\ z.name = o2.name
    BY <1>3, <2>2
  <2>5. QED BY <1>1, <1>2, <1>5, <2>1, <2>3, <2>4, HealsWriting
<1>8. QED BY <1>6, <1>7

LEMMA HealsStop ==
  ASSUME HealsInv, NEW p \in Proc, Unassign(p) \/ Remove(p) PROVE TokensAreMinted' /\ CopiesAreCurrent'
<1>1. CASE Unassign(p)
  <2> DEFINE o == [op[p] EXCEPT !.pc = "remove"]
  <2>1. /\ op[p].kind = "stop" /\ GoTo(p, o) /\ assigned' \subseteq assigned
        /\ UNCHANGED <<tok, renewals, store>> /\ raced' = raced
    BY <1>1 DEF Unassign, At, Same
  <2>2. op[p] \in Operation
    BY <2>1, OperationIsSound DEF HealsInv
  <2>3. o.kind = "stop" /\ o.s = op[p].s /\ o.local = op[p].local
    BY <2>1, <2>2 DEF Operation
  <2> HIDE DEF o
  <2>4. o.kind # "exec" /\ Minted(o.s, renewals) /\ \A n \in Name : Minted(o.local[n], renewals)
    BY <2>3, MintedHere
  <2>5. QED BY <2>1, <2>4, HealsQuietly
<1>2. CASE Remove(p)
  <2>1. UNCHANGED server /\ Write(p, op[p].name, None) /\ GoTo(p, NoOp)
    BY <1>2 DEF Remove
  <2>2. Minted(None, renewals)
    BY DEF Minted
  <2>3. QED BY <2>1, <2>2, NothingIsMinted, HealsWriting
<1>3. QED BY <1>1, <1>2

LEMMA HealsStep == HealsInv /\ [Next]_vars => HealsInv'
<1> SUFFICES ASSUME HealsInv, [Next]_vars PROVE HealsInv'
  OBVIOUS
<1>1. SessionsInv'
  BY SessionsStep DEF HealsInv
<1>2. ASSUME NEW m \in Machine, Appears(m) \/ Pruned(m) \/ Renew(m)
      PROVE  TokensAreMinted' /\ CopiesAreCurrent'
  BY <1>2, HealsColab
<1>3. ASSUME NEW p \in User,
             \/ List(p) \/ ListFails(p) \/ LookFails(p)
             \/ \E m \in Machine : NewSession(p, m)
             \/ \E k \in Kinds, n \in Name : Begin(p, k, n)
      PROVE  TokensAreMinted' /\ CopiesAreCurrent'
  <2>1. p \in Proc
    BY DEF Proc
  <2>2. QED BY <1>3, <2>1, HealsLists, HealsLook, HealsNew, HealsBegin
<1>4. ASSUME Wakes PROVE TokensAreMinted' /\ CopiesAreCurrent'
  BY <1>4, NamesAndNone, HealsBegin DEF Wakes, Kinds
<1>5. ASSUME NEW p \in Proc, Step(p) PROVE TokensAreMinted' /\ CopiesAreCurrent'
  <2>1. CASE NewStored(p) \/ Snapshot(p) \/ Assignments(p) \/ Listed(p)
    BY <2>1, HealsNew, HealsLists, HealsEnds
  <2>2. CASE (\E m \in Machine : ListPut(p, m)) \/ (\E n \in Name : ListDrop(p, n))
    BY <2>2, HealsListPut, HealsEnds
  <2>3. CASE Get(p) \/ Look(p) \/ FreshPut(p) \/ FreshDrop(p)
    BY <2>3, HealsGet, HealsLook, HealsFresh
  <2>4. CASE Mark(p) \/ Refused(p) \/ RunEnds(p) \/ Unmark(p) \/ OpEnds(p) \/ Unassign(p) \/ Remove(p)
    BY <2>4, HealsMark, HealsRefused, HealsRun, HealsEnds, HealsStop
  <2>5. QED BY <1>5, <2>1, <2>2, <2>3, <2>4 DEF Step
<1>6. ASSUME UNCHANGED vars PROVE TokensAreMinted' /\ CopiesAreCurrent'
  BY <1>6 DEF HealsInv, TokensAreMinted, CopiesAreCurrent, vars
<1>7. TokensAreMinted' /\ CopiesAreCurrent'
  BY <1>2, <1>3, <1>4, <1>5, <1>6 DEF Next
<1>8. QED BY <1>1, <1>7 DEF HealsInv

\* An execution whose record nobody else writes never fails for one stale token,
\* in the preflight or in the code: the heal of execution.py takes the machine's
\* token (session_ops.py, _refresh_runtime_token_sync) and the retry is accepted.
THEOREM StaleTokensAreHealed == Spec => []StaleTokenIsHealedAlone
<1>1. HealsInv => StaleTokenIsHealedAlone
  <2>1. ASSUME HealsInv, NEW p \in Proc, OnlyStale(p), p \notin raced PROVE FALSE
    <3>1. Healing(op[p], store[op[p].name], assigned, renewals, tok) /\ renewals \in Nat
      BY <2>1, SessionsAssumption DEF HealsInv, CopiesAreCurrent, OnlyStale, SessionsInv, SessionsTypeOK
    <3>2. QED BY <2>1, <3>1 DEF Healing, OnlyStale
  <2>2. QED BY <2>1 DEF StaleTokenIsHealedAlone
<1>2. QED BY HealsInitially, HealsStep, <1>1, PTL DEF Spec

=============================================================================
