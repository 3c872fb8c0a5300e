-------------------------- MODULE IconCacheProofs --------------------------
(***************************************************************************)
(* Proofs about IconCache, for any names, sources and images, and any      *)
(* number of workers.                                                      *)
(***************************************************************************)
EXTENDS IconCache, FiniteSetTheorems, TLAPS

-----------------------------------------------------------------------------
(* The inductive invariant                                                 *)

\* A worker is at a name; a worker holds the lock.
Busy(w)  == at[w] \in {"reading", "placing", "writing"}
Holds(w) == at[w] \in {"writing", "cleaning"}

\* The workers except those in `out` are at different names, and these are the
\* keys of `busy`.
Own(busy, out) ==
    /\ \A v \in Worker \ out : Busy(v) => name[v] \in Name /\ busy[name[v]] # Absent
    /\ \A u, v \in Worker \ out : Busy(u) /\ Busy(v) /\ name[u] = name[v] => u = v
    /\ \A n \in Name : busy[n] # Absent => \E v \in Worker \ out : Busy(v) /\ name[v] = n

Owned == Own(inflight, {})

\* One holder of the lock, which writes an image or spares what is shown.
Locked ==
    /\ \A v, w \in Worker : Holds(v) /\ Holds(w) => v = w
    /\ \A w \in Worker : at[w] = "writing" => image[w] \in Image
    /\ \A w \in Worker : at[w] = "cleaning" => keep[w] = Shown

\* Whoever ends last leaves a clean directory.
Cleaned ==
    ~littered /\ started /\ ~closed /\ (\A w \in Worker : at[w] \in {"none", "ended"})
    => files = Shown

\* As long as there is work there is a task, which at its end looks for it.
Attended ==
    /\ ~closed /\ Keys(pending) # {} => \E w \in Worker : at[w] # "none"
    /\ ~started => \A w \in Worker : at[w] = "none"

\* After the shutdown there are no tasks.
Over == gone => closed /\ \A w \in Worker : at[w] = "none"

IInv == TypeOK /\ Owned /\ Locked /\ PublishedHasFile /\ Cleaned /\ Attended /\ Over

\* It holds at the start.
LEMMA InvInit == Init => IInv
<1> SUFFICES ASSUME Init  PROVE IInv
  OBVIOUS
<1> USE DEF Init
<1>1. NoKeys \in [Name -> Wanted]
  BY DEF NoKeys, Wanted
<1>2. TypeOK
  BY <1>1 DEF TypeOK, Picture, Await
<1>3. Shown = {}
  BY IconAssumption DEF Shown
<1>4. Owned
  BY DEF Owned, Own, Busy, NoKeys
<1>5. Locked
  BY DEF Locked, Holds
<1>6. PublishedHasFile /\ Cleaned
  BY <1>3 DEF PublishedHasFile, Cleaned
<1>7. Attended /\ Over
  BY DEF Attended, Over, Keys, NoKeys
<1>8. QED
  BY <1>2, <1>4, <1>5, <1>6, <1>7 DEF IInv

-----------------------------------------------------------------------------
(* The head of a worker's loop                                             *)

\* What it leads to.
Turned(w) ==
    /\ pending' \in [Name -> Wanted] /\ inflight' \in [Name -> Wanted]
    /\ at' \in [Worker -> Await] /\ name' \in [Worker -> Name \cup {Absent}]
    /\ image' = [image EXCEPT ![w] = NoPicture]
    /\ at'[w] \in {"reading", "placing", "tidying"}
    /\ \A v \in Worker : v # w => at'[v] = at[v]
    /\ Owned'

\* Types and names, if the worker is at no name before.
LEMMA TurnLemma ==
    ASSUME TypeOK, NEW w \in Worker, NEW busy \in [Name -> Wanted], Turn(w, busy), Own(busy, {w})
    PROVE  Turned(w)
<1>1. /\ pending \in [Name -> Wanted] /\ at \in [Worker -> Await]
      /\ name \in [Worker -> Name \cup {Absent}]
  BY DEF TypeOK
<1>2. Absent \in Wanted
  BY DEF Wanted
<1>3. CASE /\ closed \/ Free(pending, busy) = {}
           /\ inflight' = busy
           /\ at' = [at EXCEPT ![w] = "tidying"]
           /\ image' = [image EXCEPT ![w] = NoPicture]
           /\ name' = [name EXCEPT ![w] = Absent]
           /\ UNCHANGED pending
  <2>1. /\ at'[w] = "tidying" /\ \A v \in Worker : v # w => at'[v] = at[v] /\ name'[v] = name[v]
        /\ at' \in [Worker -> Await] /\ name' \in [Worker -> Name \cup {Absent}]
    BY <1>1, <1>3 DEF Await
  <2>2. Owned'
    BY <1>3, <2>1 DEF Owned, Own, Busy
  <2>3. QED
    BY <1>1, <1>3, <2>1, <2>2 DEF Turned
<1>4. ASSUME NEW n \in Free(pending, busy),
             /\ pending' = [pending EXCEPT ![n] = Absent]
             /\ inflight' = [busy EXCEPT ![n] = pending[n]]
             /\ name' = [name EXCEPT ![w] = n]
             /\ at' = [at EXCEPT ![w] = IF pending[n] \in Copied THEN "reading" ELSE "placing"]
             /\ image' = [image EXCEPT ![w] = NoPicture]
      PROVE  /\ pending' \in [Name -> Wanted] /\ inflight' \in [Name -> Wanted]
             /\ at' \in [Worker -> Await] /\ name' \in [Worker -> Name \cup {Absent}]
             /\ at'[w] \in {"reading", "placing", "tidying"}
             /\ \A v \in Worker : v # w => at'[v] = at[v]
             /\ Owned'
  <2>1. n \in Name /\ pending[n] # Absent /\ busy[n] = Absent
    BY DEF Free, Keys
  <2>2. /\ at'[w] \in {"reading", "placing"} /\ name'[w] = n
        /\ \A v \in Worker : v # w => at'[v] = at[v] /\ name'[v] = name[v]
        /\ at' \in [Worker -> Await] /\ name' \in [Worker -> Name \cup {Absent}]
    BY <1>1, <1>4, <2>1 DEF Await
  <2>3. /\ pending' \in [Name -> Wanted] /\ inflight' \in [Name -> Wanted]
        /\ inflight'[n] # Absent /\ \A m \in Name : m # n => inflight'[m] = busy[m]
    BY <1>1, <1>2, <1>4, <2>1
  <2>4. Owned'
    BY <2>1, <2>2, <2>3 DEF Owned, Own, Busy
  <2>5. QED
    BY <2>2, <2>3, <2>4
<1>5. QED
  BY <1>3, <1>4 DEF Turn, Turned

\* A task that begins is at no name.
LEMMA FirstTurn ==
    ASSUME TypeOK, Owned, NEW w \in Worker, ~Busy(w), Turn(w, inflight)
    PROVE  Turned(w)
<1>1. Own(inflight, {w})
  BY DEF Owned, Own
<1>2. inflight \in [Name -> Wanted]
  BY DEF TypeOK
<1>3. QED
  BY <1>1, <1>2, TurnLemma

\* One that is through with its name gives it up.
LEMMA NextTurn ==
    ASSUME TypeOK, Owned, NEW w \in Worker, Busy(w), Onward(w)
    PROVE  Turned(w)
<1> DEFINE busy == [inflight EXCEPT ![name[w]] = Absent]
<1>1. inflight \in [Name -> Wanted] /\ name[w] \in Name
  BY DEF TypeOK, Owned, Own
<1>2. busy \in [Name -> Wanted] /\ busy[name[w]] = Absent /\ \A n \in Name : n # name[w] => busy[n] = inflight[n]
  BY <1>1 DEF Wanted
<1>3. Own(busy, {w})
  BY <1>1, <1>2 DEF Owned, Own
<1>4. Turn(w, busy)
  BY DEF Onward
<1>5. QED
  BY <1>2, <1>3, <1>4, TurnLemma

-----------------------------------------------------------------------------
(* What becomes of the picture                                             *)

\* A worker's source is one.
LEMMA BusyWith ==
    ASSUME TypeOK, Owned, NEW w \in Worker, Busy(w)
    PROVE  name[w] \in Name /\ inflight[name[w]] \in Source
  BY DEF TypeOK, Owned, Own, Wanted

\* A failure publishes no file.
LEMMA Excused ==
    ASSUME TypeOK, Owned, NEW w \in Worker, Busy(w), Excuse(w)
    PROVE  pictures' \in [Name -> Picture] /\ Shown' = Shown
<1>1. pictures \in [Name -> Picture] /\ name[w] \in Name
  BY BusyWith DEF TypeOK
<1>2. CASE desired[name[w]] = inflight[name[w]] /\ pictures[name[w]] = NoPicture
  <2>1. /\ pictures' = [pictures EXCEPT ![name[w]] = Fallback[desired[name[w]]]]
        /\ Fallback[desired[name[w]]] \in {NoPicture, "url"}
    BY <1>2, BusyWith, IconAssumption DEF Excuse
  <2>2. QED
    BY <1>1, <1>2, <2>1, IconAssumption DEF Picture, Shown
<1>3. CASE ~(desired[name[w]] = inflight[name[w]] /\ pictures[name[w]] = NoPicture)
  BY <1>1, <1>3 DEF Excuse, Shown
<1>4. QED
  BY <1>2, <1>3

\* A result is shown for one name, or for none.
LEMMA Published ==
    ASSUME TypeOK, Owned, NEW w \in Worker, Busy(w), NEW value \in Picture, Publish(w, value), UNCHANGED desired
    PROVE  /\ finished' \in [Name -> Wanted] /\ pictures' \in [Name -> Picture]
           /\ Shown' \subseteq Shown \cup ({value} \cap Image)
<1>1. /\ pictures \in [Name -> Picture] /\ finished \in [Name -> Wanted]
      /\ desired \in [Name -> Wanted] /\ name[w] \in Name
  BY BusyWith DEF TypeOK
<1>2. finished' \in [Name -> Wanted] /\ pictures' \in [Name -> Picture]
  BY <1>1 DEF Publish
<1>3. \A n \in Name : pictures'[n] = pictures[n] \/ pictures'[n] = value
  BY <1>1 DEF Publish
<1>4. QED
  BY <1>2, <1>3 DEF Shown

-----------------------------------------------------------------------------
(* Steps of a worker with a name                                           *)

\* Whose loop goes on.
Advances(w) ==
    Begin(w) \/ (\E img \in Image \cup {NoPicture} : Read(w, img)) \/ ReadFails(w)
    \/ Place(w) \/ Written(w) \/ WriteFails(w)

\* It takes another name, or waits for the lock with the image it has read.
LEMMA AdvanceLemma ==
    ASSUME TypeOK, Owned, NEW w \in Worker, Advances(w)
    PROVE  /\ \/ Turned(w)
              \/ /\ at[w] = "reading" /\ at' = [at EXCEPT ![w] = "placing"]
                 /\ \E img \in Image \cup {NoPicture} : image' = [image EXCEPT ![w] = img]
                 /\ UNCHANGED <<pending, inflight, name>>
           /\ finished' \in [Name -> Wanted] /\ pictures' \in [Name -> Picture]
           /\ UNCHANGED <<desired, started, closed, keep, gone, littered>>
           /\ at[w] \in {"new", "reading", "placing", "writing"}
<1>1. CASE Begin(w)
  <2>1. Turned(w)
    BY <1>1, FirstTurn DEF Begin, Busy
  <2>2. QED
    BY <1>1, <2>1 DEF Begin, TypeOK
<1>2. ASSUME NEW img \in Image \cup {NoPicture}, Read(w, img)
      PROVE  /\ \/ Turned(w)
                \/ /\ at' = [at EXCEPT ![w] = "placing"] /\ image' = [image EXCEPT ![w] = img]
                   /\ UNCHANGED <<pending, inflight, name>>
             /\ at[w] = "reading"
             /\ UNCHANGED <<desired, started, closed, keep, gone, littered, finished, pictures>>
  <2>1. CASE desired[name[w]] # inflight[name[w]]
    BY <1>2, <2>1, NextTurn DEF Read, Busy
  <2>2. CASE desired[name[w]] = inflight[name[w]]
    BY <1>2, <2>2 DEF Read
  <2>3. QED
    BY <2>1, <2>2
<1>3. CASE ReadFails(w)
  <2>1. Turned(w) /\ pictures' \in [Name -> Picture]
    BY <1>3, NextTurn, Excused DEF ReadFails, Busy
  <2>2. QED
    BY <1>3, <2>1 DEF ReadFails, TypeOK
<1>4. CASE Place(w)
  <2>1. Busy(w) /\ Fallback[inflight[name[w]]] \in Picture
    BY <1>4, BusyWith, IconAssumption DEF Place, Busy, Picture
  <2>2. Turned(w)
    BY <1>4, <2>1, NextTurn DEF Place
  <2>3. finished' \in [Name -> Wanted] /\ pictures' \in [Name -> Picture]
    BY <1>4, <2>1, Published DEF Place
  <2>4. QED
    BY <1>4, <2>2, <2>3 DEF Place
<1>5. CASE WriteFails(w)
  <2>1. Turned(w) /\ pictures' \in [Name -> Picture]
    BY <1>5, NextTurn, Excused DEF WriteFails, Busy
  <2>2. QED
    BY <1>5, <2>1 DEF WriteFails, TypeOK
<1>6. CASE Written(w)
  <2>1. Busy(w) /\ image[w] \in Picture
    BY <1>6 DEF Written, Busy, Picture, TypeOK
  <2>2. Turned(w)
    BY <1>6, <2>1, NextTurn DEF Written
  <2>3. finished' \in [Name -> Wanted] /\ pictures' \in [Name -> Picture]
    BY <1>6, <2>1, Published DEF Written
  <2>4. QED
    BY <1>6, <2>2, <2>3 DEF Written
<1>7. CASE \E img \in Image \cup {NoPicture} : Read(w, img)
  BY <1>2, <1>7 DEF TypeOK
<1>8. QED
  BY <1>1, <1>3, <1>4, <1>5, <1>6, <1>7 DEF Advances

\* The other steps of a worker, and those of the cache.
Remains(w) == WriteBegins(w) \/ Tidy(w) \/ Tidied(w) \/ WorkerDone(w) \/ Cancelled(w) \/ Spared(w)
Cache == PollUsable \/ Shutdown \/ ShutDown \/ RemoveFiles \/ Restart

LEMMA Steps == Next => Cache \/ \E w \in Worker : Advances(w) \/ Remains(w)
  BY DEF Next, Working, Advances, Remains, Cache

-----------------------------------------------------------------------------
(* Type correctness                                                        *)

LEMMA TypeAdvances ==
    ASSUME TypeOK, Owned, Locked, NEW w \in Worker, Advances(w)
    PROVE  TypeOK'
<1>1. /\ pending' \in [Name -> Wanted] /\ inflight' \in [Name -> Wanted]
      /\ at' \in [Worker -> Await] /\ name' \in [Worker -> Name \cup {Absent}]
      /\ image' \in [Worker -> Image \cup {NoPicture}]
  <2>1. CASE Turned(w)
    BY <2>1 DEF Turned, TypeOK
  <2>2. CASE ~Turned(w)
    BY <2>2, AdvanceLemma DEF TypeOK, Await
  <2>3. QED
    BY <2>1, <2>2
<1>2. files' \subseteq Image \cup {Temp}
  <2>1. CASE Written(w)
    BY <2>1 DEF Written, TypeOK, Locked
  <2>2. CASE ~Written(w)
    BY <2>2 DEF Advances, Begin, Read, ReadFails, Place, WriteFails, TypeOK
  <2>3. QED
    BY <2>1, <2>2
<1>3. /\ finished' \in [Name -> Wanted] /\ pictures' \in [Name -> Picture]
      /\ UNCHANGED <<desired, started, closed, keep, gone, littered>>
  BY AdvanceLemma
<1>4. QED
  BY <1>1, <1>2, <1>3 DEF TypeOK

LEMMA TypeRemains ==
    ASSUME TypeOK, Owned, Locked, NEW w \in Worker, Remains(w)
    PROVE  TypeOK'
<1>1. CASE WriteBegins(w)
  BY <1>1 DEF WriteBegins, TypeOK, Await, maps
<1>2. CASE Tidy(w)
  <2>1. Shown \in SUBSET Image
    BY DEF Shown
  <2>2. QED
    BY <1>2, <2>1 DEF Tidy, TypeOK, Await, maps
<1>3. CASE Tidied(w)
  <2>1. files' \subseteq Image \cup {Temp} /\ littered' \in BOOLEAN
    BY <1>3 DEF Tidied, Cleanup, TypeOK
  <2>2. at' \in [Worker -> Await] /\ keep' \in [Worker -> SUBSET Image]
    BY <1>3 DEF Tidied, TypeOK, Await
  <2>3. QED
    BY <1>3, <2>1, <2>2 DEF Tidied, TypeOK, maps
<1>4. CASE WorkerDone(w)
  BY <1>4 DEF WorkerDone, Started, TypeOK, Await, maps
<1>5. CASE Cancelled(w)
  <2>1. files' \subseteq Image \cup {Temp} /\ littered' \in BOOLEAN
    BY <1>5 DEF Cancelled, Cleanup, TypeOK, Locked
  <2>2. inflight' \in [Name -> Wanted]
    BY <1>5 DEF Cancelled, Drop, TypeOK, Wanted
  <2>3. QED
    BY <1>5, <2>1, <2>2 DEF Cancelled, TypeOK, Await
<1>6. CASE Spared(w)
  <2>1. inflight' \in [Name -> Wanted]
    BY <1>6 DEF Spared, Drop, TypeOK, Wanted
  <2>2. files' \subseteq Image \cup {Temp}
    BY <1>6 DEF Spared, TypeOK
  <2>3. QED
    BY <1>6, <2>1, <2>2 DEF Spared, TypeOK, Await
<1>7. QED
  BY <1>1, <1>2, <1>3, <1>4, <1>5, <1>6 DEF Remains

LEMMA TypeCache ==
    ASSUME TypeOK, Cache
    PROVE  TypeOK'
<1>1. NoKeys \in [Name -> Wanted]
  BY DEF NoKeys, Wanted
<1>2. ASSUME NEW snap \in [Name -> Wanted], Schedule(snap)
      PROVE  TypeOK'
  <2>1. desired' \in [Name -> Wanted]
    BY <1>2, IconAssumption DEF Schedule, Wanted
  <2>2. pending' \in [Name -> Wanted]
    BY <1>2, <2>1 DEF Schedule, Unsettled, Wanted
  <2>3. at' \in [Worker -> Await] /\ started' \in BOOLEAN
    BY <1>2 DEF Schedule, Started, TypeOK, Await
  <2>4. QED
    BY <1>2, <2>1, <2>2, <2>3 DEF Schedule, TypeOK
<1>3. CASE Shutdown
  BY <1>1, <1>3 DEF Shutdown, TypeOK, tasks
<1>4. CASE ShutDown
  BY <1>4 DEF ShutDown, TypeOK, maps, Await
<1>5. CASE RemoveFiles
  BY <1>5 DEF RemoveFiles, TypeOK, maps, tasks
<1>6. CASE Restart
  BY <1>1, <1>6 DEF Restart, TypeOK, Await, Picture
<1>7. QED
  BY <1>2, <1>3, <1>4, <1>5, <1>6 DEF Cache, PollUsable

-----------------------------------------------------------------------------
(* Workers and names                                                       *)

LEMMA OwnedAdvances ==
    ASSUME TypeOK, Owned, NEW w \in Worker, Advances(w)
    PROVE  Owned'
<1>1. CASE Turned(w)
  BY <1>1 DEF Turned
<1>2. CASE /\ at[w] = "reading" /\ at' = [at EXCEPT ![w] = "placing"]
           /\ UNCHANGED <<inflight, name>>
  <2>1. \A v \in Worker : Busy(v)' <=> Busy(v)
    BY <1>2 DEF Busy, TypeOK
  <2>2. QED
    BY <1>2, <2>1 DEF Owned, Own
<1>3. QED
  BY <1>1, <1>2, AdvanceLemma

LEMMA OwnedRemains ==
    ASSUME TypeOK, Owned, NEW w \in Worker, Remains(w)
    PROVE  Owned'
<1>1. ASSUME UNCHANGED <<inflight, name>>, \A v \in Worker : Busy(v)' <=> Busy(v)
      PROVE  Owned'
  BY <1>1 DEF Owned, Own
<1>2. CASE WriteBegins(w)
  BY <1>1, <1>2 DEF WriteBegins, Busy, TypeOK, maps
<1>3. CASE Tidy(w)
  BY <1>1, <1>3 DEF Tidy, Busy, TypeOK, maps
<1>4. CASE Tidied(w)
  BY <1>1, <1>4 DEF Tidied, Busy, TypeOK, maps
<1>5. CASE WorkerDone(w)
  BY <1>1, <1>5 DEF WorkerDone, Started, Busy, TypeOK, maps
<1>6. CASE Cancelled(w) \/ Spared(w)
  <2>1. at'[w] \in {"ended", "spared"} /\ name' = name /\ \A v \in Worker : v # w => at'[v] = at[v]
    BY <1>6 DEF Cancelled, Spared, TypeOK
  <2>2. CASE Busy(w)
    <3>1. inflight' = [inflight EXCEPT ![name[w]] = Absent] /\ inflight \in [Name -> Wanted]
      BY <1>6, <2>2 DEF Cancelled, Spared, Drop, Busy, TypeOK
    <3>2. QED
      BY <2>1, <2>2, <3>1 DEF Owned, Own, Busy
  <2>3. CASE ~Busy(w)
    <3>1. inflight' = inflight
      BY <1>6, <2>3 DEF Cancelled, Spared, Drop, Busy
    <3>2. QED
      BY <1>1, <2>1, <2>3, <3>1 DEF Busy
  <2>4. QED
    BY <2>2, <2>3
<1>7. QED
  BY <1>2, <1>3, <1>4, <1>5, <1>6 DEF Remains

LEMMA OwnedCache ==
    ASSUME TypeOK, Owned, Cache
    PROVE  Owned'
<1>1. ASSUME UNCHANGED <<inflight, name>>, \A v \in Worker : Busy(v)' <=> Busy(v)
      PROVE  Owned'
  BY <1>1 DEF Owned, Own
<1>2. ASSUME NEW snap \in [Name -> Wanted], Schedule(snap)
      PROVE  Owned'
  BY <1>1, <1>2 DEF Schedule, Started, Busy, TypeOK
<1>3. CASE Shutdown
  BY <1>1, <1>3 DEF Shutdown, Busy, tasks
<1>4. CASE ShutDown
  BY <1>1, <1>4 DEF ShutDown, Busy, maps
<1>5. CASE RemoveFiles
  BY <1>1, <1>5 DEF RemoveFiles, Busy, maps, tasks
<1>6. CASE Restart
  BY <1>6 DEF Restart, Owned, Own, Busy, NoKeys
<1>7. QED
  BY <1>2, <1>3, <1>4, <1>5, <1>6 DEF Cache, PollUsable

-----------------------------------------------------------------------------
(* The lock and the directory                                              *)

\* A worker adds to what is shown what it adds to the directory, and only while
\* nobody else is in the directory.
LEMMA AdvanceFiles ==
    ASSUME TypeOK, Owned, Locked, NEW w \in Worker, Advances(w)
    PROVE  /\ files \cap Image \subseteq files' /\ Shown' \subseteq Shown \cup files'
           /\ Shown' = Shown \/ \A v \in Worker : v # w => ~Holds(v)
<1>1. Temp \notin Image
  BY IconAssumption
<1>2. CASE Place(w)
  <2>1. Busy(w) /\ Fallback[inflight[name[w]]] \in Picture \ Image
    BY <1>2, BusyWith, IconAssumption DEF Place, Busy, Picture
  <2>2. Shown' \subseteq Shown
    BY <1>2, <2>1, Published DEF Place
  <2>3. QED
    BY <1>2, <2>2 DEF Place, LockFree, Holds
<1>3. CASE Written(w)
  <2>1. Busy(w) /\ image[w] \in Image
    BY <1>3 DEF Written, Busy, Locked
  <2>2. Shown' \subseteq Shown \cup {image[w]}
    BY <1>3, <2>1, Published DEF Written, Picture
  <2>3. files' = (files \ {Temp}) \cup {image[w]}
    BY <1>3 DEF Written
  <2>4. \A v \in Worker : v # w => ~Holds(v)
    BY <1>3 DEF Written, Locked, Holds
  <2>5. QED
    BY <1>1, <2>2, <2>3, <2>4
<1>4. CASE ~Place(w) /\ ~Written(w)
  <2>1. Shown' = Shown
    <3>1. CASE Begin(w)
      BY <3>1 DEF Begin, Shown
    <3>2. CASE \E img \in Image \cup {NoPicture} : Read(w, img)
      BY <3>2 DEF Read, Shown
    <3>3. CASE ReadFails(w)
      BY <3>3, Excused DEF ReadFails, Busy
    <3>4. CASE WriteFails(w)
      BY <3>4, Excused DEF WriteFails, Busy
    <3>5. QED
      BY <1>4, <3>1, <3>2, <3>3, <3>4 DEF Advances
  <2>2. files \cap Image \subseteq files'
    BY <1>1, <1>4 DEF Advances, Begin, Read, ReadFails, WriteFails
  <2>3. QED
    BY <2>1, <2>2
<1>5. QED
  BY <1>2, <1>3, <1>4

LEMMA LockedAdvances ==
    ASSUME TypeOK, Owned, Locked, NEW w \in Worker, Advances(w)
    PROVE  Locked'
<1>1. /\ at'[w] \in {"reading", "placing", "tidying"}
      /\ \A v \in Worker : v # w => at'[v] = at[v] /\ image'[v] = image[v]
  BY AdvanceLemma DEF Turned, TypeOK
<1>2. keep' = keep
  BY AdvanceLemma
<1>3. ASSUME NEW v \in Worker, at'[v] = "cleaning"
      PROVE  keep'[v] = Shown'
  BY <1>1, <1>2, <1>3, AdvanceFiles DEF Locked, Holds
<1>4. QED
  BY <1>1, <1>3 DEF Locked, Holds

LEMMA LockedRemains ==
    ASSUME TypeOK, Locked, NEW w \in Worker, Remains(w)
    PROVE  Locked'
<1>1. Shown' = Shown
  BY DEF Remains, WriteBegins, Tidy, Tidied, Cleanup, WorkerDone, Cancelled, Spared, Shown, maps
<1>2. ASSUME image' = image, \A v \in Worker : at'[v] = at[v] \/ ~Holds(v)',
             \A v \in Worker : at'[v] = "cleaning" => keep'[v] = keep[v]
      PROVE  Locked'
  BY <1>1, <1>2 DEF Locked, Holds
<1>3. CASE WriteBegins(w)
  <2>1. at'[w] = "writing" /\ \A v \in Worker : v # w => at'[v] = at[v] /\ ~Holds(v)'
    BY <1>3 DEF WriteBegins, LockFree, Holds, TypeOK
  <2>2. image[w] \in Image /\ UNCHANGED <<image, keep>>
    BY <1>3 DEF WriteBegins, TypeOK
  <2>3. QED
    BY <2>1, <2>2 DEF Locked, Holds
<1>4. CASE Tidy(w)
  <2>1. at'[w] = "cleaning" /\ \A v \in Worker : v # w => at'[v] = at[v] /\ ~Holds(v)'
    BY <1>4 DEF Tidy, MayTidy, LockFree, Holds, TypeOK
  <2>2. keep'[w] = Shown
    BY <1>4 DEF Tidy, TypeOK
  <2>3. QED
    BY <1>1, <2>1, <2>2 DEF Locked, Holds
<1>5. CASE Tidied(w)
  BY <1>2, <1>5 DEF Tidied, Holds, TypeOK
<1>6. CASE WorkerDone(w)
  BY <1>2, <1>6 DEF WorkerDone, Started, Holds, TypeOK
<1>7. CASE Cancelled(w) \/ Spared(w)
  BY <1>2, <1>7 DEF Cancelled, Spared, Holds, TypeOK
<1>8. QED
  BY <1>3, <1>4, <1>5, <1>6, <1>7 DEF Remains

LEMMA LockedCache ==
    ASSUME TypeOK, Locked, Cache
    PROVE  Locked'
<1>1. ASSUME UNCHANGED <<image, keep, pictures>>, \A v \in Worker : at'[v] = at[v] \/ ~Holds(v)'
      PROVE  Locked'
  BY <1>1 DEF Locked, Holds, Shown
<1>2. ASSUME NEW snap \in [Name -> Wanted], Schedule(snap)
      PROVE  Locked'
  BY <1>1, <1>2 DEF Schedule, Started, Holds, TypeOK
<1>3. CASE Shutdown
  BY <1>1, <1>3 DEF Shutdown, tasks
<1>4. CASE ShutDown
  BY <1>1, <1>4 DEF ShutDown, Holds, maps
<1>5. CASE RemoveFiles
  BY <1>1, <1>5 DEF RemoveFiles, maps, tasks
<1>6. CASE Restart
  BY <1>6 DEF Restart, Locked, Holds
<1>7. QED
  BY <1>2, <1>3, <1>4, <1>5, <1>6 DEF Cache, PollUsable

\* What is shown has its file.
LEMMA FilesStep ==
    ASSUME IInv, Next
    PROVE  PublishedHasFile'
<1> USE DEF IInv, PublishedHasFile
<1>1. ASSUME NEW w \in Worker, Advances(w)
      PROVE  PublishedHasFile'
  <2>1. ~gone /\ Shown \subseteq Image
    BY <1>1 DEF Advances, Begin, Read, ReadFails, Place, Written, WriteFails, Over, Shown
  <2>2. QED
    BY <1>1, <2>1, AdvanceFiles
<1>2. ASSUME NEW w \in Worker, Remains(w)
      PROVE  PublishedHasFile'
  <2>1. /\ Shown' = Shown /\ gone' = gone /\ Shown \subseteq Image
        /\ at[w] = "writing" => image[w] \in Image
        /\ at[w] = "cleaning" => keep[w] = Shown
    BY <1>2 DEF Remains, WriteBegins, Tidy, Tidied, Cleanup, WorkerDone, Cancelled, Spared, Shown, maps, Locked
  <2>2. ~gone => files \cap Shown \subseteq files'
    BY <1>2, <2>1, IconAssumption DEF Remains, WriteBegins, Tidy, Tidied, Cleanup, WorkerDone, Cancelled, Spared
  <2>3. QED
    BY <2>1, <2>2
<1>3. CASE Cache
  <2>1. CASE Restart
    BY <2>1, IconAssumption DEF Restart, Shown
  <2>2. CASE PollUsable \/ Shutdown
    BY <2>2 DEF PollUsable, Schedule, Shutdown, Shown
  <2>3. CASE ShutDown \/ RemoveFiles
    BY <2>3 DEF ShutDown, RemoveFiles
  <2>4. QED
    BY <1>3, <2>1, <2>2, <2>3 DEF Cache
<1>4. QED
  BY <1>1, <1>2, <1>3, Steps

\* The last task to end has tidied up.
LEMMA CleanedStep ==
    ASSUME IInv, Next
    PROVE  Cleaned'
<1>1. ASSUME NEW w \in Worker, Advances(w)
      PROVE  Cleaned'
  BY <1>1, AdvanceLemma DEF IInv, Turned, TypeOK, Cleaned
<1>2. ASSUME NEW w \in Worker, Remains(w)
      PROVE  Cleaned'
  <2>1. CASE WriteBegins(w)
    BY <2>1 DEF WriteBegins, IInv, TypeOK, Cleaned
  <2>2. CASE Tidy(w)
    BY <2>2 DEF Tidy, IInv, TypeOK, Cleaned
  <2>3. CASE Tidied(w)
    <3>1. Shown \subseteq files /\ keep[w] = Shown /\ Shown' = Shown
      BY <2>3 DEF Tidied, Cleanup, IInv, Over, PublishedHasFile, Locked, Shown, maps
    <3>2. ~littered' => files' = files \cap keep[w]
      BY <2>3 DEF Tidied, Cleanup
    <3>3. QED
      BY <3>1, <3>2 DEF Cleaned
  <2>4. CASE WorkerDone(w)
    <3>1. (\A v \in Worker : at'[v] \in {"none", "ended"}) => \A v \in Worker : at[v] \in {"none", "ended"}
      BY <2>4 DEF WorkerDone, Started, IInv, TypeOK
    <3>2. QED
      BY <2>4, <3>1 DEF WorkerDone, IInv, Cleaned, Shown, maps
  <2>5. CASE Cancelled(w) \/ Spared(w)
    <3>1. closed'
      BY <2>5 DEF Cancelled, Spared
    <3>2. QED
      BY <3>1 DEF Cleaned
  <2>6. QED
    BY <1>2, <2>1, <2>2, <2>3, <2>4, <2>5 DEF Remains
<1>3. ASSUME NEW snap \in [Name -> Wanted], Schedule(snap)
      PROVE  Cleaned'
  <2>1. UNCHANGED <<files, littered, closed>> /\ Shown' = Shown
    BY <1>3 DEF Schedule, Shown
  <2>2. ASSUME \A v \in Worker : at'[v] \in {"none", "ended"}
        PROVE  started /\ at' = at
    <3>1. CASE ~Wake(pending')
      BY <1>3, <3>1 DEF Schedule, Wake
    <3>2. CASE at' = Started
      <4>1. \A v \in Worker : at[v] = "ended" /\ at'[v] = at[v]
        BY <2>2, <3>2 DEF Started
      <4>2. started
        BY <4>1, IconAssumption DEF IInv, Attended
      <4>3. at' = at
        BY <3>2, <4>1 DEF Started, IInv, TypeOK
      <4>4. QED
        BY <4>2, <4>3
    <3>3. QED
      BY <1>3, <3>1, <3>2 DEF Schedule
  <2>3. QED
    BY <2>1, <2>2 DEF IInv, Cleaned
<1>4. CASE Shutdown \/ ShutDown \/ RemoveFiles \/ Restart
  BY <1>4 DEF Shutdown, ShutDown, RemoveFiles, Restart, IInv, Over, Cleaned
<1>5. QED
  BY <1>1, <1>2, <1>3, <1>4, Steps DEF Cache, PollUsable

\* A task that ends leaves no work that nobody would look for.
LEMMA AttendedStep ==
    ASSUME IInv, Next
    PROVE  Attended'
<1> USE DEF IInv, Attended
<1>1. ASSUME NEW w \in Worker, Advances(w)
      PROVE  Attended'
  BY <1>1, AdvanceLemma DEF Turned, TypeOK
<1>2. ASSUME NEW w \in Worker, Remains(w)
      PROVE  Attended'
  <2>1. CASE WorkerDone(w)
    <3>1. at[w] = "ended" /\ ~closed /\ UNCHANGED <<pending, inflight, closed, started>>
      BY <2>1 DEF WorkerDone, maps
    <3>2. CASE Free(pending, inflight) # {}
      BY <2>1, <3>1, <3>2 DEF WorkerDone, Started, TypeOK
    <3>3. CASE Free(pending, inflight) = {}
      <4>1. at' = [at EXCEPT ![w] = "none"]
        BY <2>1, <3>3 DEF WorkerDone
      <4>2. Keys(pending) # {} => \E n \in Name : inflight[n] # Absent
        BY <3>3 DEF Free, Keys
      <4>3. Keys(pending) # {} => \E v \in Worker : v # w /\ at[v] # "none"
        BY <3>1, <4>2 DEF Owned, Own, Busy
      <4>4. started
        BY <3>1
      <4>5. Keys(pending') = Keys(pending)
        BY <3>1 DEF Keys
      <4>6. QED
        BY <3>1, <4>1, <4>3, <4>4, <4>5 DEF TypeOK
    <3>4. QED
      BY <3>2, <3>3
  <2>2. CASE ~WorkerDone(w)
    <3>1. at[w] # "none" /\ at'[w] # "none" /\ started' = started
      BY <1>2, <2>2 DEF Remains, WriteBegins, Tidy, Tidied, Cancelled, Spared, TypeOK
    <3>2. QED
      BY <3>1
  <2>3. QED
    BY <2>1, <2>2
<1>3. ASSUME NEW snap \in [Name -> Wanted], Schedule(snap)
      PROVE  Attended'
  <2>1. CASE Wake(pending')
    BY <1>3, <2>1, IconAssumption DEF Schedule, Started, TypeOK
  <2>2. CASE ~Wake(pending')
    BY <1>3, <2>2 DEF Schedule, Wake, Keys
  <2>3. QED
    BY <2>1, <2>2
<1>4. CASE Shutdown \/ ShutDown \/ RemoveFiles \/ Restart
  BY <1>4 DEF Shutdown, ShutDown, RemoveFiles, Restart, Over, maps, tasks, Keys, NoKeys
<1>5. QED
  BY <1>1, <1>2, <1>3, <1>4, Steps DEF Cache, PollUsable

\* Nothing begins after the shutdown.
LEMMA OverStep ==
    ASSUME IInv, Next
    PROVE  Over'
<1> USE DEF IInv, Over
<1>1. ASSUME NEW w \in Worker, Advances(w) \/ Remains(w)
      PROVE  Over'
  <2>1. ~gone /\ gone' = gone
    BY <1>1 DEF Advances, Begin, Read, ReadFails, Place, Written, WriteFails,
                Remains, WriteBegins, Tidy, Tidied, Cleanup, WorkerDone, Cancelled, Spared
  <2>2. QED
    BY <2>1
<1>2. CASE Cache
  BY <1>2 DEF Cache, PollUsable, Schedule, Shutdown, ShutDown, RemoveFiles, Restart, tasks
<1>3. QED
  BY <1>1, <1>2, Steps

-----------------------------------------------------------------------------
(* Theorems                                                                *)

LEMMA InvStep ==
    ASSUME IInv, [Next]_vars
    PROVE  IInv'
<1>1. CASE Next
  <2>1. TypeOK'
    BY <1>1, Steps, TypeAdvances, TypeRemains, TypeCache DEF IInv
  <2>2. Owned'
    BY <1>1, Steps, OwnedAdvances, OwnedRemains, OwnedCache DEF IInv
  <2>3. Locked'
    BY <1>1, Steps, LockedAdvances, LockedRemains, LockedCache DEF IInv
  <2>4. QED
    BY <1>1, <2>1, <2>2, <2>3, FilesStep, CleanedStep, AttendedStep, OverStep DEF IInv
<1>2. CASE UNCHANGED vars
  BY <1>2 DEF vars, maps, tasks, IInv, TypeOK, Owned, Own, Busy, Locked, Holds, PublishedHasFile, Shown,
              Cleaned, Attended, Over, Keys
<1>3. QED
  BY <1>1, <1>2

LEMMA InvInductive == Spec => []IInv
  BY InvInit, InvStep, PTL DEF Spec

\* Every variable keeps its type.
THEOREM TypeCorrect == Spec => []TypeOK
<1>1. IInv => TypeOK
  BY DEF IInv
<1>2. QED
  BY <1>1, InvInductive, PTL

\* A picture shown has its file, and when the tasks are done the directory has
\* no other.
THEOREM FilesAgree == Spec => []FilesMatch
<1>1. IInv => FilesMatch
  BY DEF IInv, Cleaned, FilesMatch, PublishedHasFile, IdleIsClean
<1>2. QED
  BY <1>1, InvInductive, PTL

\* One task is at each name in `inflight`, and none ends over work.
THEOREM TasksAgree == Spec => []WorkersMatch
<1>1. ASSUME IInv  PROVE OneWorkerPerName
  <2> SUFFICES ASSUME NEW n \in Name
               PROVE  Cardinality({w \in Worker : Busy(w) /\ name[w] = n})
                          = IF inflight[n] = Absent THEN 0 ELSE 1
    BY DEF OneWorkerPerName, Busy
  <2> DEFINE those == {w \in Worker : Busy(w) /\ name[w] = n}
  <2>1. CASE inflight[n] = Absent
    <3>1. those = {}
      BY <1>1, <2>1 DEF IInv, Owned, Own
    <3>2. QED
      BY <2>1, <3>1, FS_EmptySet
  <2>2. CASE inflight[n] # Absent
    <3>1. PICK w \in Worker : Busy(w) /\ name[w] = n
      BY <1>1, <2>2 DEF IInv, Owned, Own
    <3>2. those = {w}
      BY <1>1, <3>1 DEF IInv, Owned, Own
    <3>3. QED
      BY <2>2, <3>2, FS_Singleton
  <2>3. QED
    BY <2>1, <2>2
<1>2. IInv => IdleIsDone
  BY DEF IInv, Attended, IdleIsDone
<1>3. IInv => WorkersMatch
  BY <1>1, <1>2 DEF WorkersMatch
<1>4. QED
  BY <1>3, InvInductive, PTL

\* After the shutdown nothing is written, and a result is shown only for the
\* source that is wanted then.
THEOREM LateIsLost == Spec => NothingLate
<1>1. ASSUME IInv, [Next]_vars
      PROVE  [gone /\ gone' => files' \subseteq files]_vars
  <2>1. ASSUME gone, NEW w \in Worker
        PROVE  ~Advances(w) /\ ~Remains(w)
    BY <1>1, <2>1 DEF IInv, Over, Advances, Begin, Read, ReadFails, Place, Written, WriteFails,
                  Remains, WriteBegins, Tidy, Tidied, Cleanup, WorkerDone, Cancelled, Spared
  <2>2. ASSUME Next, gone, gone'
        PROVE  files' \subseteq files
    <3>1. Cache
      BY <2>1, <2>2, Steps
    <3>2. QED
      BY <1>1, <2>2, <3>1 DEF IInv, Over, Cache, PollUsable, Schedule, Shutdown, ShutDown, RemoveFiles, Restart
  <2>3. QED
    BY <1>1, <2>2
<1>2. ASSUME IInv, [Next]_vars
      PROVE  [\A n \in Name : pictures'[n] # pictures[n] /\ pictures'[n] # NoPicture =>
                 \E w \in Worker : name[w] = n /\ inflight[n] = desired[n]]_vars
  <2> SUFFICES ASSUME Next, NEW n \in Name, pictures'[n] # pictures[n], pictures'[n] # NoPicture
               PROVE  \E w \in Worker : name[w] = n /\ inflight[n] = desired[n]
    BY <1>2
  <2>1. ASSUME NEW w \in Worker, Advances(w)
        PROVE  name[w] = n /\ inflight[n] = desired[n]
    <3>1. \/ Excuse(w)
          \/ \E value \in Picture : Publish(w, value)
          \/ UNCHANGED pictures
      BY <1>2, <2>1, BusyWith, IconAssumption
         DEF IInv, TypeOK, Advances, Begin, Read, ReadFails, Place, Written, WriteFails, Busy, Picture
    <3>2. QED
      BY <1>2, <3>1 DEF IInv, TypeOK, Excuse, Publish
  <2>2. ASSUME NEW w \in Worker, Remains(w)
        PROVE  FALSE
    BY <2>2 DEF Remains, WriteBegins, Tidy, Tidied, Cleanup, WorkerDone, Cancelled, Spared, maps
  <2>3. CASE Cache
    BY <2>3 DEF Cache, PollUsable, Schedule, Shutdown, ShutDown, RemoveFiles, Restart, maps
  <2>4. QED
    BY <2>1, <2>2, <2>3, Steps
<1>3. QED
  BY <1>1, <1>2, InvInductive, PTL DEF Spec, NothingLate, QuietAfterShutdown, NewestWins

==============================================================================
