--------------------------- MODULE GenerationPages ---------------------------
(* The pages that generate images, videos and music: one request that starts *)
(* the work, then one status request after the other until the task has      *)
(* ended.  A page that is left, or whose user moves on, forgets the requests *)
(* that are under way; the server does not.                                  *)
EXTENDS Integers, FiniteSets

CONSTANTS
  Pages,      \* the pages of this run
  MaxSubmits  \* bounds the generations a user starts

AllPages == {"creation", "image", "video", "music"}

GenerationAssumption == Pages \subseteq AllPages /\ MaxSubmits \in Nat

Submits == 1..MaxSubmits

VARIABLES
  page,     \* the page the user is on
  ready,    \* TRUE: its keys and channels are loaded
  mode,     \* what the creation page makes: images or videos
  last,     \* the latest generation started, 0: none
  posts,    \* generations whose request this page has sent and waits for
  status,   \* idle, polling, done or failed
  task,     \* the generation whose task the page follows, 0: none
  shown,    \* the generation whose outcome the page shows, 0: none
  running,  \* TRUE: the generate button is disabled
  polls,    \* generations a status request is under way for
  srv,      \* per generation, what the server has made of it
  left,     \* generations the user moved on from
  lost      \* generations whose answer was lost

viewVars == <<ready, mode, status, task, shown, running>>
netVars  == <<posts, polls, lost>>
generationVars     == <<page, viewVars, netVars, last, srv, left>>

\* "none": not started; "asked": the request reached the server; "now": the
\* result is in the answer; the others are states of the task it made.
Made == {"processing", "done", "failed"}

GenerationInit ==
  /\ page \in Pages /\ ready = FALSE /\ mode = "image"
  /\ last = 0 /\ posts = {} /\ polls = {} /\ lost = {} /\ left = {}
  /\ status = "idle" /\ task = 0 /\ shown = 0 /\ running = FALSE
  /\ srv = [k \in Submits |-> "none"]

-----------------------------------------------------------------------------
(* What the pages do differently.                                            *)

\* The image and video pages enable the button again once the request is
\* answered, the creation and music pages once the task has ended.
ImageRuns    == FALSE
VideoRuns    == FALSE
MusicRuns    == TRUE
CreationRuns == TRUE

RunsWhilePolling ==
  CASE page = "image" -> ImageRuns [] page = "video" -> VideoRuns
    [] page = "music" -> MusicRuns [] page = "creation" -> CreationRuns

\* The buttons: each page's condition, and no request while one is under way.
ImageOffers    == page = "image" /\ ready /\ ~running
VideoOffers    == page = "video" /\ ready /\ ~running
MusicOffers    == page = "music" /\ ready /\ ~running
CreationOffers == page = "creation" /\ ready /\ ~running
\* The result's own button, which looks at the status alone.
RegenerateOffered == page = "creation" /\ ready /\ status = "done"

GenerateOffered == ImageOffers \/ VideoOffers \/ MusicOffers \/ CreationOffers
             \/ RegenerateOffered

\* The status a request starts in, and the one a refusal leaves behind.
StatusWhenAsked == IF page = "creation" THEN "polling" ELSE "idle"
StatusWhenRefused == IF page \in {"creation", "music"} THEN "failed" ELSE "idle"
StatusWhenLost == IF page = "creation" THEN "failed" ELSE "idle"

-----------------------------------------------------------------------------
(* The page.                                                                 *)

\* Keys and channels are loaded together, once per visit.
Loaded ==
  /\ ~ready /\ ready' = TRUE
  /\ UNCHANGED <<page, mode, status, task, shown, running, netVars, last, srv, left>>

LoadImagePage    == page = "image" /\ Loaded
LoadVideoPage    == page = "video" /\ Loaded
LoadMusicPage    == page = "music" /\ Loaded
LoadCreationPage == page = "creation" /\ Loaded

Generate ==
  /\ GenerateOffered /\ last < MaxSubmits
  /\ LET k == last + 1
     IN  /\ last' = k /\ posts' = posts \cup {k}
         /\ srv' = [srv EXCEPT ![k] = "asked"]
         /\ left' = left \cup 1..last
  /\ running' = TRUE /\ task' = 0 /\ shown' = 0 /\ status' = StatusWhenAsked
  /\ UNCHANGED <<page, ready, mode, polls, lost>>

\* Variant: the answer is dropped when the user has moved on meanwhile.
PostAnsweredIfCurrent(k) ==
  /\ k \in posts /\ srv[k] # "asked"
  /\ posts' = posts \ {k}
  /\ CASE srv[k] \in Made /\ page = "creation" /\ status = "idle" ->
              UNCHANGED <<task, status, shown>> /\ running' = FALSE
       [] srv[k] \in Made /\ ~(page = "creation" /\ status = "idle") ->
              task' = k /\ status' = "polling" /\ shown' = shown
              /\ running' = RunsWhilePolling
       [] srv[k] = "now"     -> shown' = k /\ status' = "done" /\ task' = task
                                 /\ running' = FALSE
       [] srv[k] = "refused" -> status' = StatusWhenRefused /\ running' = FALSE
                                 /\ UNCHANGED <<task, shown>>
  /\ UNCHANGED <<page, ready, mode, polls, lost, last, srv, left>>

PostAnswered(k) ==
  /\ k \in posts /\ srv[k] # "asked"
  /\ posts' = posts \ {k}
  /\ CASE srv[k] \in Made    -> task' = k /\ status' = "polling" /\ shown' = shown
                                 /\ running' = RunsWhilePolling
       [] srv[k] = "now"     -> shown' = k /\ status' = "done" /\ task' = task
                                 /\ running' = FALSE
       [] srv[k] = "refused" -> status' = StatusWhenRefused /\ running' = FALSE
                                 /\ UNCHANGED <<task, shown>>
  /\ UNCHANGED <<page, ready, mode, polls, lost, last, srv, left>>

\* The connection breaks: the page says it failed, the server goes on.
PostLost(k) ==
  /\ k \in posts
  /\ posts' = posts \ {k} /\ lost' = lost \cup {k}
  /\ status' = StatusWhenLost /\ running' = FALSE
  /\ UNCHANGED <<page, ready, mode, task, shown, polls, last, srv, left>>

-----------------------------------------------------------------------------
(* Following the task.  The effect runs while the page polls a task; when the *)
(* status or the task changes, its requests are cancelled.                    *)

ImagePolls    == page = "image" /\ task # 0 /\ status = "polling"
VideoPolls    == page = "video" /\ task # 0 /\ status = "polling"
MusicPolls    == page = "music" /\ task # 0 /\ status = "polling"
CreationPolls == page = "creation" /\ task # 0 /\ status = "polling"

Polling == ImagePolls \/ VideoPolls \/ MusicPolls \/ CreationPolls

AskStatus ==
  /\ Polling /\ task \notin polls
  /\ polls' = polls \cup {task}
  /\ UNCHANGED <<page, viewVars, posts, lost, last, srv, left>>

\* Variant: the answers of a cancelled effect count.
CurrentAlways(k) == TRUE

Current(k) == Polling /\ task = k

StatusAnswered(k) ==
  /\ k \in polls /\ Current(k) /\ srv[k] \in {"done", "failed"}
  /\ polls' = polls \ {k}
  /\ shown' = k /\ status' = srv[k] /\ running' = FALSE
  /\ UNCHANGED <<page, ready, mode, task, posts, lost, last, srv, left>>

\* An answer that says the task goes on, one of a cancelled effect, and a
\* request that fails, change nothing; the creation page cancels and asks
\* again whenever it is rendered.
StatusIgnored(k) ==
  /\ k \in polls
  /\ polls' = polls \ {k}
  /\ UNCHANGED <<page, viewVars, posts, lost, last, srv, left>>

-----------------------------------------------------------------------------
(* Moving on.                                                                *)

\* Variant: the button too.
ResetAll(m) ==
  /\ page = "creation"
  /\ mode' = m /\ status' = "idle" /\ task' = 0 /\ shown' = 0 /\ running' = FALSE
  /\ left' = left \cup ({task, shown} \ {0})
  /\ UNCHANGED <<page, ready, netVars, last, srv>>

\* Another tab of the creation page, a prompt, a result or a history entry
\* that is used again: the view is reset, the button is not.
Reset(m) ==
  /\ page = "creation"
  /\ mode' = m /\ status' = "idle" /\ task' = 0 /\ shown' = 0
  /\ left' = left \cup ({task, shown} \ {0})
  /\ UNCHANGED <<page, ready, running, netVars, last, srv>>

SwitchTab == \E m \in {"image", "video"} \ {mode} : Reset(m)
MakeVideo == mode = "image" /\ status = "done" /\ Reset("video")
Reuse     == Reset(mode)

\* Another page of the site, and the same one again.
Leave ==
  /\ ready
  /\ page' \in Pages
  /\ ready' = FALSE /\ mode' = "image" /\ status' = "idle"
  /\ task' = 0 /\ shown' = 0 /\ running' = FALSE /\ posts' = {} /\ polls' = {}
  /\ left' = left \cup 1..last
  /\ UNCHANGED <<lost, last, srv>>

-----------------------------------------------------------------------------
(* The server.                                                               *)

ServerTakes(k) ==
  /\ srv[k] = "asked"
  /\ \E outcome \in {"processing", "now", "refused"} :
       srv' = [srv EXCEPT ![k] = outcome]
  /\ UNCHANGED <<page, viewVars, netVars, last, left>>

Finish(k) ==
  /\ srv[k] = "processing"
  /\ \E outcome \in {"done", "failed"} : srv' = [srv EXCEPT ![k] = outcome]
  /\ UNCHANGED <<page, viewVars, netVars, last, left>>

-----------------------------------------------------------------------------
GenerationNext ==
  \/ LoadImagePage \/ LoadVideoPage \/ LoadMusicPage \/ LoadCreationPage
  \/ Generate \/ AskStatus \/ SwitchTab \/ MakeVideo \/ Reuse \/ Leave
  \/ \E k \in Submits :
       \/ PostAnswered(k) \/ PostLost(k) \/ StatusAnswered(k) \/ StatusIgnored(k)
       \/ ServerTakes(k) \/ Finish(k)

GenerationSpec == GenerationInit /\ [][GenerationNext]_generationVars

-----------------------------------------------------------------------------
(* Properties.                                                               *)

\* A visit never has two generations asked for at a time, whatever the user
\* resets, switches or regenerates: each one is charged.
OnePost == Cardinality(posts) <= 1

\* The page follows and shows the latest generation only; a status request of
\* an earlier one that is answered late changes nothing.
LatestOnly == /\ task \in {0, last} /\ shown \in {0, last}
              /\ status = "done" => shown = last

\* A generation the server took is followed or shown, unless its answer was
\* lost or the user moved on from it, for as long as the visit lasts.
NothingDropped ==
  \A k \in Submits :
    /\ srv[k] \in Made \cup {"now"}
    /\ k \notin posts \cup left \cup lost
    => k \in {task, shown}
=============================================================================
