----------------------------- MODULE IconCache -----------------------------
(***************************************************************************)
(* The cache of container and stack pictures (icon_cache.py): each poll    *)
(* states which source every picture comes from, two workers drain the     *)
(* difference, and a directory served by Home Assistant holds the copies.  *)
(*                                                                         *)
(* A step runs from one await to the next; taking a free lock is a step of *)
(* its own.  The cache is modelled with its route working (local_enabled). *)
(***************************************************************************)
EXTENDS Naturals, FiniteSets

CONSTANTS
    Name,        \* containers and stacks
    Worker,      \* the two worker tasks
    Source,      \* what a picture can come from, with its fallback
    Copied,      \* the sources whose image is copied through SSH
    Image,       \* images, by their hash
    Fallback     \* the URL shown for a source that gives no image

Gone      == "gone"       \* (None, None): no source and no fallback
Absent    == "absent"     \* not a key of the map
NoPicture == "no picture"
Temp      == "temp"       \* a file under its temporary name

ASSUME IconAssumption ==
    /\ Worker # {}
    /\ Gone \in Source /\ Absent \notin Source /\ Copied \subseteq Source \ {Gone}
    /\ Fallback \in [Source -> {NoPicture, "url"}] /\ Fallback[Gone] = NoPicture
    /\ Image \cap {NoPicture, "url", Temp} = {}

VARIABLES
    desired,   \* name -> source, by the latest usable poll
    pending,   \* name -> source that no worker has taken
    inflight,  \* name -> source a worker is at
    finished,  \* name -> source that was settled last
    pictures,  \* name -> what entity_picture shows
    started, closed,
    at,        \* worker -> where its task awaits
    name,      \* worker -> the name it is at
    image,     \* worker -> the decoded image, NoPicture without one
    keep,      \* worker -> the files its tidying spares
    files,     \* the directory of the entry
    gone,      \* the cache has been shut down completely
    littered   \* history: the last tidying raised OSError

maps  == <<desired, pending, inflight, finished, pictures>>
tasks == <<at, name, image, keep>>
vars  == <<maps, started, closed, tasks, files, gone, littered>>

\* No task; created; awaiting SSH and decoding; the lock; the write; the lock
\* before tidying, also after the shutdown; tidying; ended, its done callback
\* still to come.
Await == {"none", "new", "reading", "placing", "writing", "tidying", "spared", "cleaning", "ended"}

Picture  == Image \cup {NoPicture, "url"}
Wanted   == Source \cup {Absent}
NoKeys == [n \in Name |-> Absent]
Keys(f)  == {n \in Name : f[n] # Absent}

\* Mutation of Shown: URLs are not told from files.
ShownAll == {pictures[n] : n \in Name}

Shown == {pictures[n] : n \in Name} \cap Image

\* _files_lock: held during an executor call.
LockFree == \A w \in Worker : at[w] \notin {"writing", "cleaning"}

-----------------------------------------------------------------------------
(* Polls and tasks                                                         *)

\* _start_workers
Started == [w \in Worker |-> IF at[w] = "none" THEN "new" ELSE at[w]]

Unsettled(d) == [n \in Name |-> IF d[n] \in {finished[n], inflight[n]} THEN Absent ELSE d[n]]

\* Workers have to be started: for work, or to tidy up after a start.
Wake(p) == Keys(p) # {} \/ ~started

\* schedule: a usable snapshot names the sources.
Schedule(snap) ==
    LET d == [n \in Name |-> IF snap[n] = Absent /\ (pictures[n] # NoPicture \/ n \in Keys(finished) \cup Keys(inflight))
                             THEN Gone ELSE snap[n]]
    IN  /\ ~closed
        /\ desired' = d
        /\ pending' = Unsettled(d)
        /\ IF Wake(pending')
           THEN at' = Started /\ started' = TRUE ELSE UNCHANGED <<at, started>>
        /\ UNCHANGED <<inflight, finished, pictures, closed, name, image, keep, files, gone, littered>>

Free(p, busy) == Keys(p) \ Keys(busy)

\* The head of a worker's loop: take a name nobody is at, or go on to tidy up.
Turn(w, busy) ==
    \/ \E n \in Free(pending, busy) :
        /\ ~closed
        /\ pending' = [pending EXCEPT ![n] = Absent]
        /\ inflight' = [busy EXCEPT ![n] = pending[n]]
        /\ name' = [name EXCEPT ![w] = n]
        /\ at' = [at EXCEPT ![w] = IF pending[n] \in Copied THEN "reading" ELSE "placing"]
        /\ image' = [image EXCEPT ![w] = NoPicture]
    \/ /\ closed \/ Free(pending, busy) = {}
       /\ inflight' = busy
       /\ at' = [at EXCEPT ![w] = "tidying"]
       /\ image' = [image EXCEPT ![w] = NoPicture]
       /\ name' = [name EXCEPT ![w] = Absent]
       /\ UNCHANGED pending

\* The worker is through with its name.
Onward(w) == Turn(w, [inflight EXCEPT ![name[w]] = Absent])

Begin(w) ==
    /\ at[w] = "new" /\ ~closed
    /\ Turn(w, inflight)
    /\ UNCHANGED <<desired, finished, pictures, started, closed, keep, files, gone, littered>>

\* The image is read and decoded, or was no image (img = NoPicture).
Read(w, img) ==
    /\ at[w] = "reading" /\ ~closed
    /\ IF desired[name[w]] # inflight[name[w]]
       THEN Onward(w)
       ELSE /\ at' = [at EXCEPT ![w] = "placing"]
            /\ image' = [image EXCEPT ![w] = img]
            /\ UNCHANGED <<pending, inflight, name>>
    /\ UNCHANGED <<desired, finished, pictures, started, closed, keep, files, gone, littered>>

\* The except branch: keep what is shown, else show the fallback.
Excuse(w) ==
    LET n == name[w]
    IN  pictures' = IF desired[n] = inflight[n] /\ pictures[n] = NoPicture
                    THEN [pictures EXCEPT ![n] = Fallback[desired[n]]] ELSE pictures

ReadFails(w) ==
    /\ at[w] = "reading" /\ ~closed
    /\ Excuse(w)
    /\ Onward(w)
    /\ UNCHANGED <<desired, finished, started, closed, keep, files, gone, littered>>

\* Under the lock: publish unless a newer poll wants another source.
Publish(w, value) ==
    LET n == name[w]
    IN  IF desired[n] = inflight[n]
        THEN /\ finished' = [finished EXCEPT ![n] = desired[n]]
             /\ pictures' = [pictures EXCEPT ![n] = value]
        ELSE UNCHANGED <<finished, pictures>>

\* The lock is taken without an image to write.
Place(w) ==
    /\ at[w] = "placing" /\ image[w] = NoPicture /\ LockFree /\ ~closed
    /\ Publish(w, Fallback[inflight[name[w]]])
    /\ Onward(w)
    /\ UNCHANGED <<desired, started, closed, keep, files, gone, littered>>

WriteBegins(w) ==
    /\ at[w] = "placing" /\ image[w] # NoPicture /\ LockFree /\ ~closed
    /\ at' = [at EXCEPT ![w] = "writing"]
    /\ files' = files \cup {Temp}
    /\ UNCHANGED <<maps, started, closed, name, image, keep, gone, littered>>

Written(w) ==
    /\ at[w] = "writing" /\ ~closed
    /\ files' = (files \ {Temp}) \cup {image[w]}
    /\ Publish(w, image[w])
    /\ Onward(w)
    /\ UNCHANGED <<desired, started, closed, keep, gone, littered>>

WriteFails(w) ==
    /\ at[w] = "writing" /\ ~closed
    /\ files' = files \ {Temp}
    /\ Excuse(w)
    /\ Onward(w)
    /\ UNCHANGED <<desired, finished, started, closed, keep, gone, littered>>

-----------------------------------------------------------------------------
(* Tidying and the end of a task                                           *)

\* Mutation of MayTidy: the directory is tidied without the lock.
MayTidyUnlocked(w) == TRUE

MayTidy(w) == LockFree

Tidy(w) ==
    /\ (at[w] = "tidying" /\ ~closed) \/ at[w] = "spared"
    /\ MayTidy(w)
    /\ keep' = [keep EXCEPT ![w] = Shown]
    /\ at' = [at EXCEPT ![w] = "cleaning"]
    /\ UNCHANGED <<maps, started, closed, name, image, files, gone, littered>>

\* _cleanup, which may raise half-way.
Cleanup(w) ==
    \/ files' = files \cap keep[w] /\ littered' = FALSE
    \/ /\ \E some \in SUBSET files : files' = (files \cap keep[w]) \cup some
       /\ littered' = TRUE

Tidied(w) ==
    /\ at[w] = "cleaning" /\ ~closed
    /\ Cleanup(w)
    /\ at' = [at EXCEPT ![w] = "ended"]
    /\ keep' = [keep EXCEPT ![w] = {}]
    /\ UNCHANGED <<maps, started, closed, name, image, gone>>

\* Mutation of WorkerDone: nobody looks for work left over.
WorkerDoneOnly(w) ==
    /\ at[w] = "ended" /\ ~closed
    /\ at' = [at EXCEPT ![w] = "none"]
    /\ UNCHANGED <<maps, started, closed, name, image, keep, files, gone, littered>>

\* _worker_done: a poll may have come while both tidied up.
WorkerDone(w) ==
    /\ at[w] = "ended" /\ ~closed
    /\ at' = IF Free(pending, inflight) # {}
             THEN [Started EXCEPT ![w] = "new"] ELSE [at EXCEPT ![w] = "none"]
    /\ UNCHANGED <<maps, started, closed, name, image, keep, files, gone, littered>>

-----------------------------------------------------------------------------
(* Shutdown, removal and restart                                           *)

\* async_shutdown: every task is cancelled, then awaited.
Shutdown ==
    /\ ~closed
    /\ closed' = TRUE
    /\ pending' = NoKeys
    /\ UNCHANGED <<desired, inflight, finished, pictures, started, tasks, files, gone, littered>>

Drop(w) == IF at[w] \in {"reading", "placing", "writing"} THEN [inflight EXCEPT ![name[w]] = Absent] ELSE inflight

\* CancelledError where the task awaits; an executor call is waited for.
Cancelled(w) ==
    /\ closed /\ at[w] \notin {"none", "spared", "ended"}
    /\ \/ at[w] = "cleaning" /\ Cleanup(w)
       \/ at[w] = "writing" /\ files' = (files \ {Temp}) \cup {image[w]} /\ UNCHANGED littered
       \/ at[w] \notin {"cleaning", "writing"} /\ UNCHANGED <<files, littered>>
    /\ inflight' = Drop(w)
    /\ at' = [at EXCEPT ![w] = "ended"]
    /\ UNCHANGED <<desired, pending, finished, pictures, started, closed, name, image, keep, gone>>

\* An executor call that raises takes the place of the cancellation: the worker
\* goes on to tidy up.
Spared(w) ==
    /\ closed /\ at[w] \in {"reading", "writing"}
    /\ files' = IF at[w] = "writing" THEN files \ {Temp} ELSE files
    /\ inflight' = Drop(w)
    /\ at' = [at EXCEPT ![w] = "spared"]
    /\ UNCHANGED <<desired, pending, finished, pictures, started, closed, name, image, keep, gone, littered>>

\* Mutation of ShutDown: the cancelled tasks are not awaited.
ShutDownUnawaited ==
    /\ closed /\ ~gone
    /\ gone' = TRUE
    /\ UNCHANGED <<maps, started, closed, tasks, files, littered>>

ShutDown ==
    /\ closed /\ ~gone /\ \A w \in Worker : at[w] \in {"none", "ended"}
    /\ gone' = TRUE
    /\ at' = [w \in Worker |-> "none"]
    /\ UNCHANGED <<maps, started, closed, name, image, keep, files, littered>>

\* async_remove_icon_files, once the entry is unloaded.
RemoveFiles ==
    /\ gone /\ files # {}
    /\ files' = {}
    /\ UNCHANGED <<maps, started, closed, tasks, gone, littered>>

Init ==
    /\ desired = NoKeys /\ pending = NoKeys /\ inflight = NoKeys /\ finished = NoKeys
    /\ pictures = [n \in Name |-> NoPicture]
    /\ started = FALSE /\ closed = FALSE /\ gone = FALSE
    /\ at = [w \in Worker |-> "none"] /\ name = [w \in Worker |-> Absent]
    /\ image = [w \in Worker |-> NoPicture] /\ keep = [w \in Worker |-> {}]
    /\ files = {} /\ littered = FALSE

\* A new cache for the same directory: after a shutdown, or Home Assistant died.
Restart ==
    /\ desired' = NoKeys /\ pending' = NoKeys /\ inflight' = NoKeys /\ finished' = NoKeys
    /\ pictures' = [n \in Name |-> NoPicture]
    /\ started' = FALSE /\ closed' = FALSE /\ gone' = FALSE
    /\ at' = [w \in Worker |-> "none"] /\ name' = [w \in Worker |-> Absent]
    /\ image' = [w \in Worker |-> NoPicture] /\ keep' = [w \in Worker |-> {}]
    /\ UNCHANGED <<files, littered>>

PollUsable == \E snap \in [Name -> Wanted] : Schedule(snap)

Working(w) ==
    \/ Begin(w) \/ ReadFails(w) \/ Place(w) \/ WriteBegins(w) \/ Written(w) \/ WriteFails(w)
    \/ \E img \in Image \cup {NoPicture} : Read(w, img)
    \/ Tidy(w) \/ Tidied(w) \/ WorkerDone(w)

Next ==
    \/ PollUsable
    \/ \E w \in Worker : Working(w) \/ Cancelled(w) \/ Spared(w)
    \/ Shutdown \/ ShutDown \/ RemoveFiles \/ Restart

Spec == Init /\ [][Next]_vars

-----------------------------------------------------------------------------
(* Properties                                                              *)

\* Every variable keeps its type.
TypeOK ==
    /\ {desired, pending, inflight, finished} \subseteq [Name -> Wanted]
    /\ pictures \in [Name -> Picture]
    /\ started \in BOOLEAN /\ closed \in BOOLEAN /\ gone \in BOOLEAN
    /\ at \in [Worker -> Await] /\ name \in [Worker -> Name \cup {Absent}]
    /\ image \in [Worker -> Image \cup {NoPicture}]
    /\ keep \in [Worker -> SUBSET Image]
    /\ files \subseteq Image \cup {Temp} /\ littered \in BOOLEAN

\* A picture shown from the directory has its file there, also while the other
\* worker tidies up, writes the same image for another name or is cancelled.
PublishedHasFile == ~gone => Shown \subseteq files

\* No two workers are at one name, and what they are at is exactly `inflight`.
OneWorkerPerName ==
    \A n \in Name :
        Cardinality({w \in Worker : at[w] \in {"reading", "placing", "writing"} /\ name[w] = n})
            = IF inflight[n] = Absent THEN 0 ELSE 1

\* When no task is left and the last tidying did not fail, the directory holds
\* exactly what is shown: no leftover of a replaced picture, of a superseded
\* write, of a tidying that failed before or of an earlier process.
IdleIsClean ==
    (~littered /\ started /\ ~closed /\ \A w \in Worker : at[w] = "none") => files = Shown

\* No poll is forgotten: when no task is left, nothing waits for one, without
\* another poll having to come.
IdleIsDone ==
    (started /\ ~closed /\ \A w \in Worker : at[w] = "none") => Keys(pending) = {}

\* Files and pictures agree at every moment: nothing shown lacks its file, and
\* nothing else is left when the tasks are done (icon_cache.py:252).
FilesMatch == PublishedHasFile /\ IdleIsClean

\* Tasks and names agree: one task per name, and none ends over work that a poll
\* left while both were tidying up (icon_cache.py:142).
WorkersMatch == OneWorkerPerName /\ IdleIsDone

\* Once the shutdown is complete, nothing writes to the directory any more; so
\* the removal of the entry removes it for good.
QuietAfterShutdown == [][gone /\ gone' => files' \subseteq files]_vars

\* Only results of the source that is wanted now are published.
NewestWins ==
    [][\A n \in Name : pictures'[n] # pictures[n] /\ pictures'[n] # NoPicture =>
          \E w \in Worker : name[w] = n /\ inflight[n] = desired[n]]_vars

\* Nothing that is late has an effect: neither a task that was cancelled nor an
\* image of a source that a newer poll has replaced (icon_cache.py:178, 238).
NothingLate == QuietAfterShutdown /\ NewestWins

=============================================================================
