-------------------------- MODULE ConfigFlowProofs --------------------------
(***************************************************************************)
(* Proofs about ConfigFlow, for any number of servers, keys, entries and   *)
(* dialogs, any of which may await an answer at the same time.             *)
(***************************************************************************)
EXTENDS ConfigFlow, TLAPS

-----------------------------------------------------------------------------
(* The inductive invariant                                                 *)

EntryType == [uid : Place, host : Place, key : Key, proven : Place \X Key, overtaken : BOOLEAN]
DialogType == [step : Forms \cup Submitted \cup {"none", "offering"}, entry : Entry \cup {NoEntry},
               host : Place, uid : Place, key : Key, trust : Key, shown : Key, held : Key,
               overtaken : BOOLEAN]

\* A dialog has an entry that exists when its step is about one.
HasEntry(d) ==
    d.step \in {"offering", "confirm", "confirming", "where", "asking", "trying"} =>
        d.entry \in Entry /\ Exists(d.entry)

\* Dialogs that ask for an address, for a new entry or for one that moves.
Seeks(d) == d.step \in {"user", "fetching", "key", "testing", "where", "asking", "trying"}

\* The key on offer is the one in the form.
Offers(d) == d.step \in {"confirm", "confirming"} /\ d.key # Down => d.shown = d.key

\* What is being tested again is the key in the form or the one the entry had,
\* with the entry's address, unless another dialog has moved the entry since.
Confirms(d) ==
    d.step = "confirming" =>
        /\ d.trust \in {d.shown, d.held}
        /\ d.host = entries[d.entry].host \/ d.overtaken

\* The address asked or tested is the one the dialog has claimed, or its
\* entry's own, unless another dialog has moved the entry since.
Claims(d) ==
    /\ d.step \in {"fetching", "key", "testing"} => d.host \in Address /\ d.uid = d.host
    /\ d.step = "offering" => d.host \in Address
    /\ d.step \in {"asking", "trying"} =>
          /\ d.host \in Address
          /\ d.host \in {d.uid, entries[d.entry].uid} \/ d.overtaken

\* No other dialog has claimed this address, and no entry has it but one that
\* was moved back to it.
Free(f, uid) ==
    /\ \A e \in Entry : entries[e].uid = uid => entries[e].overtaken
    /\ \A g \in Flow : g # f /\ Seeks(flows[g]) => flows[g].uid # uid

Unclaimed(f, d) == Seeks(d) /\ d.uid # Nowhere => Free(f, d.uid)

\* f may be the dialog d.
Fits(f, d) ==
    /\ d \in DialogType /\ HasEntry(d)
    /\ Offers(d) /\ Confirms(d) /\ Claims(d) /\ Unclaimed(f, d)

\* An entry is typed and has addresses, and a key that was tested, with them
\* unless an answer came late.
Sound(e) ==
    /\ entries[e] \in EntryType
    /\ Exists(e) => entries[e].uid \in Address /\ entries[e].host \in Address
    /\ entries[e].proven[2] = entries[e].key
    /\ entries[e].proven[1] = entries[e].host \/ entries[e].overtaken

DialogsFit == flows \in [Flow -> DialogType] /\ \A f \in Flow : Fits(f, flows[f])
EntriesSound == entries \in [Entry -> EntryType] /\ \A e \in Entry : Sound(e)
IInv == offers \in [Address -> Key] /\ DialogsFit /\ EntriesSound /\ OneEntryPerServer

\* It implies what is to be proved.
LEMMA InvImplies == IInv => TypeOK /\ KeyOfItsServer /\ OneEntryPerServer
  BY DEF IInv, DialogsFit, EntriesSound, Fits, Sound, HasEntry, TypeOK, KeyOfItsServer, DialogType, EntryType

\* It holds at the start.
LEMMA InvInit == Init => IInv
<1> USE FlowAssumption DEF Init, Closed, Vacant, Key, Place
<1> SUFFICES ASSUME Init PROVE IInv
  OBVIOUS
<1>1. offers \in [Address -> Key]
  OBVIOUS
<1>2. Closed \in DialogType /\ Vacant \in EntryType
  BY DEF DialogType, EntryType
<1>3. DialogsFit
  BY <1>2 DEF DialogsFit, Fits, HasEntry, Seeks, Offers, Confirms, Claims, Unclaimed, Submitted
<1>4. EntriesSound
  BY <1>2 DEF EntriesSound, Sound, Exists
<1>5. OneEntryPerServer
  BY DEF OneEntryPerServer, Exists
<1>6. QED
  BY <1>1, <1>3, <1>4, <1>5 DEF IInv

-----------------------------------------------------------------------------
(* Steps that change one dialog only                                       *)

\* What the invariant says of one dialog and of the entries.
LEMMA Present ==
    ASSUME IInv, NEW f \in Flow
    PROVE  /\ offers \in [Address -> Key]
           /\ flows \in [Flow -> DialogType] /\ flows[f] \in DialogType /\ HasEntry(flows[f])
           /\ Offers(flows[f]) /\ Confirms(flows[f])
           /\ Claims(flows[f]) /\ Unclaimed(f, flows[f])
           /\ entries \in [Entry -> EntryType] /\ \A e \in Entry : Sound(e)
           /\ flows[f].key \in Key /\ flows[f].trust \in Key /\ flows[f].shown \in Key
           /\ flows[f].overtaken \in BOOLEAN
  BY DEF IInv, DialogsFit, Fits, EntriesSound, DialogType

\* A dialog that fits where it stands keeps the invariant.
LEMMA DialogStep ==
    ASSUME IInv, NEW f \in Flow, NEW d, Fits(f, d),
           flows' = [flows EXCEPT ![f] = d], UNCHANGED <<offers, entries>>
    PROVE  IInv'
<1>1. /\ flows \in [Flow -> DialogType] /\ d \in DialogType /\ \A g \in Flow : Fits(g, flows[g])
      /\ entries' = entries
  BY DEF IInv, DialogsFit, Fits
<1>2. flows' \in [Flow -> DialogType] /\ flows'[f] = d /\ \A g \in Flow : g # f => flows'[g] = flows[g]
  BY <1>1
<1>3. ASSUME NEW g \in Flow  PROVE Fits(g, flows[g])'
  <2>1. flows'[g] \in DialogType /\ HasEntry(flows[g])' /\ Offers(flows[g])' /\ Confirms(flows[g])' /\ Claims(flows[g])'
    BY <1>1, <1>2 DEF Fits, HasEntry, Exists, Offers, Confirms, Claims
  <2>2. CASE g = f
    <3>1. Unclaimed(f, d)
      BY <1>1 DEF Fits
    <3>2. Unclaimed(g, flows[g])'
      BY <1>1, <1>2, <2>2, <3>1 DEF Unclaimed, Free, Seeks
    <3>3. QED
      BY <2>1, <3>2 DEF Fits
  <2>3. CASE g # f
    <3>1. Unclaimed(g, flows[g]) /\ Unclaimed(f, d)
      BY <1>1 DEF Fits
    <3>2. Unclaimed(g, flows[g])'
      BY <1>1, <1>2, <2>3, <3>1 DEF Unclaimed, Free, Seeks
    <3>3. QED
      BY <2>1, <3>2 DEF Fits
  <2>4. QED
    BY <2>2, <2>3
<1>4. DialogsFit'
  BY <1>2, <1>3 DEF DialogsFit
<1>5. QED
  BY <1>1, <1>4 DEF IInv, EntriesSound, Sound, Exists, OneEntryPerServer

\* A closed dialog always fits.
LEMMA ClosedFits ==
    ASSUME NEW f \in Flow
    PROVE  Fits(f, Closed)
<1>1. Closed \in DialogType
  BY DEF DialogType, Closed, Key, Place
<1>2. QED
  BY <1>1 DEF Fits, HasEntry, Seeks, Offers, Confirms, Claims, Unclaimed, Closed, Submitted

\* A host key arrives.
LEMMA FetchedKeeps ==
    ASSUME IInv, NEW f \in Flow, Fetched(f)
    PROVE  IInv'
<1> DEFINE d == [flows[f] EXCEPT !.step = "key", !.key = offers[flows[f].host]]
<1>1. flows' = [flows EXCEPT ![f] = d] /\ UNCHANGED <<offers, entries>>
  BY DEF Fetched
<1>2. /\ flows[f] \in DialogType /\ HasEntry(flows[f])
      /\ flows[f].step = "fetching" /\ offers[flows[f].host] \in Key
      /\ Claims(flows[f]) /\ Unclaimed(f, flows[f])
  BY Present, FlowAssumption DEF Fetched, Claims
<1>3. d \in DialogType
  BY <1>2 DEF DialogType, Forms, Submitted
<1>4. Fits(f, d)
  BY <1>2, <1>3, FlowAssumption
     DEF Fits, HasEntry, Offers, Confirms, Claims, Unclaimed, Seeks
<1>5. QED
  BY <1>1, <1>4, DialogStep

\* The user has put the key on the server.
LEMMA SubmitKeyKeeps ==
    ASSUME IInv, NEW f \in Flow, SubmitKey(f)
    PROVE  IInv'
<1> DEFINE d == [flows[f] EXCEPT !.step = "testing"]
<1>1. flows' = [flows EXCEPT ![f] = d] /\ UNCHANGED <<offers, entries>>
  BY DEF SubmitKey, To
<1>2. /\ flows[f] \in DialogType /\ HasEntry(flows[f])
      /\ flows[f].step = "key"
      /\ Claims(flows[f]) /\ Unclaimed(f, flows[f])
  BY Present, FlowAssumption DEF SubmitKey
<1>3. d \in DialogType
  BY <1>2 DEF DialogType, Forms, Submitted
<1>4. Fits(f, d)
  BY <1>2, <1>3, FlowAssumption
     DEF Fits, HasEntry, Offers, Confirms, Claims, Unclaimed, Seeks
<1>5. QED
  BY <1>1, <1>4, DialogStep

\* The key on offer is shown.
LEMMA OfferedKeeps ==
    ASSUME IInv, NEW f \in Flow, Offered(f)
    PROVE  IInv'
<1>0. PICK key \in {offers[flows[f].host], Down} : Offer(f, key)
  BY DEF Offered
<1> DEFINE d == [flows[f] EXCEPT !.step = "confirm", !.key = key,
                           !.shown = IF key # Down THEN key ELSE entries[flows[f].entry].key]
<1>1. flows' = [flows EXCEPT ![f] = d] /\ UNCHANGED <<offers, entries>>
  BY <1>0 DEF Offered, Offer
<1>2. /\ flows[f] \in DialogType /\ HasEntry(flows[f])
      /\ flows[f].step = "offering" /\ key \in Key
      /\ flows[f].entry \in Entry /\ entries[flows[f].entry].key \in Key
  BY <1>0, Present, FlowAssumption DEF Offered, Claims, HasEntry, EntryType, Key
<1>3. d \in DialogType
  BY <1>2 DEF DialogType, Forms, Submitted
<1>4. Fits(f, d)
  BY <1>2, <1>3, FlowAssumption
     DEF Fits, HasEntry, Offers, Confirms, Claims, Unclaimed, Seeks
<1>5. QED
  BY <1>1, <1>4, DialogStep

\* The key to trust is tested.
LEMMA SubmitConfirmKeeps ==
    ASSUME IInv, NEW f \in Flow, NEW tick \in BOOLEAN, SubmitConfirm(f, tick)
    PROVE  IInv'
<1> DEFINE d == [flows[f] EXCEPT !.step = "confirming", !.host = entries[flows[f].entry].host,
                           !.trust = TrustedKey(f, tick), !.held = entries[flows[f].entry].key]
<1>1. flows' = [flows EXCEPT ![f] = d] /\ UNCHANGED <<offers, entries>>
  BY DEF SubmitConfirm
<1>2. /\ flows[f] \in DialogType /\ HasEntry(flows[f])
      /\ flows[f].step = "confirm" /\ flows[f].entry \in Entry
      /\ entries[flows[f].entry].host \in Place /\ entries[flows[f].entry].key \in Key
      /\ TrustedKey(f, tick) \in Key
      /\ Offers(flows[f]) /\ TrustedKey(f, tick) \in {flows[f].shown, entries[flows[f].entry].key}
  BY Present, FlowAssumption DEF SubmitConfirm, HasEntry, EntryType, TrustedKey, Offers
<1>3. d \in DialogType
  BY <1>2 DEF DialogType, Forms, Submitted
<1>4. /\ d.step = "confirming" /\ d.host = entries[d.entry].host /\ d.trust \in {d.shown, d.held}
      /\ d.key = flows[f].key /\ d.shown = flows[f].shown /\ d.entry = flows[f].entry
  BY <1>2 DEF DialogType
<1>5. Fits(f, d)
  BY <1>2, <1>3, <1>4, FlowAssumption
     DEF Fits, HasEntry, Offers, Confirms, Claims, Unclaimed, Seeks
<1>6. QED
  BY <1>1, <1>5, DialogStep

\* The key did not pass, the form comes again.
LEMMA UnconfirmedKeeps ==
    ASSUME IInv, NEW f \in Flow, Unconfirmed(f)
    PROVE  IInv'
<1> DEFINE d == [flows[f] EXCEPT !.step = "confirm", !.trust = Down, !.held = Down, !.overtaken = FALSE,
                           !.shown = IF flows[f].key # Down THEN flows[f].key ELSE flows[f].trust]
<1>1. flows' = [flows EXCEPT ![f] = d] /\ UNCHANGED <<offers, entries>>
  BY DEF Unconfirmed
<1>2. /\ flows[f] \in DialogType /\ HasEntry(flows[f])
      /\ flows[f].step = "confirming" /\ flows[f].key \in Key /\ flows[f].trust \in Key /\ Down \in Key
  BY Present, FlowAssumption DEF Unconfirmed, Key
<1>3. d \in DialogType
  BY <1>2 DEF DialogType, Forms, Submitted
<1>4. Fits(f, d)
  BY <1>2, <1>3, FlowAssumption
     DEF Fits, HasEntry, Offers, Confirms, Claims, Unclaimed, Seeks
<1>5. QED
  BY <1>1, <1>4, DialogStep

\* The server to move to has a key.
LEMMA AskedKeeps ==
    ASSUME IInv, NEW f \in Flow, Asked(f)
    PROVE  IInv'
<1> DEFINE d == [flows[f] EXCEPT !.step = "trying", !.key = offers[flows[f].host]]
<1>1. flows' = [flows EXCEPT ![f] = d] /\ UNCHANGED <<offers, entries>>
  BY DEF Asked
<1>2. /\ flows[f] \in DialogType /\ HasEntry(flows[f])
      /\ flows[f].step = "asking" /\ offers[flows[f].host] \in Key
      /\ Claims(flows[f]) /\ Unclaimed(f, flows[f])
  <2>1. flows[f].step = "asking" /\ Claims(flows[f])
    BY Present DEF Asked
  <2>2. flows[f].host \in Address
    BY <2>1 DEF Claims
  <2>3. QED
    BY <2>1, <2>2, Present
<1>3. d \in DialogType
  BY <1>2 DEF DialogType, Forms, Submitted
<1>4. Fits(f, d)
  BY <1>2, <1>3, FlowAssumption
     DEF Fits, HasEntry, Offers, Confirms, Claims, Unclaimed, Seeks
<1>5. QED
  BY <1>1, <1>4, DialogStep

\* A form with an error.
LEMMA FailsKeeps ==
    ASSUME IInv, NEW f \in Flow, Fails(f)
    PROVE  IInv'
<1> DEFINE d == [flows[f] EXCEPT !.step = FormOf(flows[f].step), !.overtaken = FALSE]
<1>1. flows' = [flows EXCEPT ![f] = d] /\ UNCHANGED <<offers, entries>>
  BY DEF Fails
<1>2. /\ flows[f] \in DialogType /\ HasEntry(flows[f])
      /\ flows[f].step \in {"fetching", "testing", "asking", "trying"}
      /\ FormOf(flows[f].step) \in {"user", "key", "where"}
      /\ FormOf(flows[f].step) = "key" => flows[f].step = "testing"
      /\ FormOf(flows[f].step) = "where" => flows[f].step \in {"asking", "trying"}
      /\ Claims(flows[f]) /\ Unclaimed(f, flows[f])
  BY Present, FlowAssumption DEF Fails, FormOf
<1>3. d \in DialogType
  BY <1>2 DEF DialogType, Forms, Submitted
<1>4. Fits(f, d)
  BY <1>2, <1>3, FlowAssumption
     DEF Fits, HasEntry, Offers, Confirms, Claims, Unclaimed, Seeks
<1>5. QED
  BY <1>1, <1>4, DialogStep

\* An address for a new entry is claimed.
LEMMA SubmitUserKeeps ==
    ASSUME IInv, NEW f \in Flow, NEW a \in Address, SubmitUser(f, a)
    PROVE  IInv'
<1>1. CASE Taken(f, a) /\ Abort(f)
  BY <1>1, ClosedFits, DialogStep DEF SubmitUser, Abort
<1>2. CASE ~Taken(f, a)
  <2> DEFINE d == [flows[f] EXCEPT !.step = "fetching", !.host = a, !.uid = a]
  <2>1. flows' = [flows EXCEPT ![f] = d] /\ UNCHANGED <<offers, entries>>
    BY <1>2 DEF SubmitUser
  <2>2. flows[f] \in DialogType
    BY Present DEF SubmitUser
  <2>3. d \in DialogType
    BY <2>2 DEF DialogType, Submitted, Place
  <2>4. /\ \A g \in Flow : g # f => flows[g].uid # a
        /\ \A e \in Entry : entries[e].uid # a
    BY <1>2 DEF Taken, InProgress, Configured
  <2>5. Fits(f, d)
    BY <2>2, <2>3, <2>4 DEF Fits, HasEntry, Offers, Confirms, Claims, Unclaimed, Free, DialogType
  <2>6. QED
    BY <2>1, <2>5, DialogStep
<1>3. QED
  BY <1>1, <1>2 DEF SubmitUser

\* An address to move to is claimed, unless it is the entry's own.
LEMMA SubmitWhereKeeps ==
    ASSUME IInv, NEW f \in Flow, NEW a \in Address, SubmitWhere(f, a)
    PROVE  IInv'
<1> DEFINE own == entries[flows[f].entry].uid
<1>1. CASE Abort(f)
  BY <1>1, ClosedFits, DialogStep DEF SubmitWhere, Abort
<1>2. CASE ~Abort(f)
  <2> DEFINE d == [flows[f] EXCEPT !.step = "asking", !.host = a, !.uid = IF a = own THEN @ ELSE a]
  <2>1. flows' = [flows EXCEPT ![f] = d] /\ UNCHANGED <<offers, entries>>
    BY <1>2 DEF SubmitWhere
  <2>2. /\ flows[f] \in DialogType /\ HasEntry(flows[f]) /\ flows[f].step = "where"
        /\ flows[f].uid \in Place /\ Unclaimed(f, flows[f])
      BY Present DEF SubmitWhere, DialogType
  <2>3. d \in DialogType /\ d.step = "asking" /\ d.host = a /\ d.entry = flows[f].entry
        /\ d.uid = IF a = own THEN flows[f].uid ELSE a
    BY <2>2 DEF DialogType, Submitted, Place
  <2>4. a # own => /\ \A g \in Flow : g # f => flows[g].uid # a
                   /\ \A e \in Entry : entries[e].uid # a
    BY <1>2 DEF SubmitWhere, Taken, InProgress, Configured
  <2>5. Unclaimed(f, d)
    BY <2>2, <2>3, <2>4 DEF Unclaimed, Free, Seeks
  <2>6. Fits(f, d)
    BY <2>2, <2>3, <2>5 DEF Fits, HasEntry, Offers, Confirms, Claims
  <2>7. QED
    BY <2>1, <2>6, DialogStep
<1>3. QED
  BY <1>1, <1>2

\* A dialog is opened.
LEMMA OpenKeeps ==
    ASSUME IInv, NEW f \in Flow, \/ Open(f)
                                 \/ \E e \in Entry : Reauth(f, e) \/ Reconfigure(f, e)
    PROVE  IInv'
<1>0. Closed \in DialogType
  BY ClosedFits DEF Fits
<1>1. CASE Open(f)
  <2> DEFINE d == [Closed EXCEPT !.step = "user"]
  <2>1. d \in DialogType
    BY <1>0 DEF DialogType, Forms
  <2>2. Fits(f, d)
    <3>1. d.step = "user" /\ d.uid = Nowhere
      BY DEF Closed
    <3>2. QED
      BY <2>1, <3>1 DEF Fits, HasEntry, Offers, Confirms, Claims, Unclaimed, Submitted
  <2>3. QED
    BY <1>1, <2>2, DialogStep DEF Open
<1>2. ASSUME NEW e \in Entry, Reconfigure(f, e)  PROVE IInv'
  <2> DEFINE d == [Closed EXCEPT !.step = "where", !.entry = e]
  <2>1. d \in DialogType
    BY <1>0 DEF DialogType, Forms
  <2>2. Fits(f, d)
    BY <1>2, <2>1 DEF Reconfigure, Fits, HasEntry, Offers, Confirms, Claims, Unclaimed, Closed, Submitted
  <2>3. QED
    BY <1>2, <2>2, DialogStep DEF Reconfigure
<1>3. ASSUME NEW e \in Entry, Reauth(f, e)  PROVE IInv'
  <2> DEFINE d == [Closed EXCEPT !.step = "offering", !.entry = e,
                                 !.host = entries[e].host, !.uid = entries[e].uid]
  <2>1. Exists(e) /\ entries[e] \in EntryType /\ entries[e].host \in Address
    BY <1>3, Present DEF Reauth, Sound
  <2>2. d \in DialogType
    BY <1>0, <2>1 DEF DialogType, EntryType
  <2>3. Fits(f, d)
    BY <2>1, <2>2 DEF Fits, HasEntry, Offers, Confirms, Claims, Unclaimed, Seeks, Closed, Submitted
  <2>4. QED
    BY <1>3, <2>3, DialogStep DEF Reauth
<1>4. QED
  BY <1>1, <1>2, <1>3

-----------------------------------------------------------------------------
(* Steps that change an entry                                              *)

\* What another dialog becomes when a dialog writes: what it was, or one that
\* knows nothing of it but is overtaken.
Noted(g) == flows'[g] \in {flows[g], [flows[g] EXCEPT !.overtaken = TRUE]}

\* A dialog is about entry e and has read from it what it will write.
Asks(g, e) == flows[g].entry = e /\ flows[g].step \in {"confirming", "asking", "trying"}

\* Dialog f ends and writes r to entry e: no other dialog has claimed the
\* address and no other entry has it, unless an answer came late.
Writes(f, e, r) ==
    /\ f \in Flow
    /\ e \in Entry /\ r \in EntryType
    /\ r.uid \in Address /\ r.host \in Address
    /\ r.proven[2] = r.key /\ (r.proven[1] = r.host \/ r.overtaken)
    /\ r.overtaken \/ Free(f, r.uid) \/ (r.uid = entries[e].uid /\ ~entries[e].overtaken)
    /\ entries' = [entries EXCEPT ![e] = r]
    /\ flows' \in [Flow -> DialogType] /\ flows'[f] = Closed
    /\ \A g \in Flow : g # f => Noted(g)
    /\ \A g \in Flow : g # f /\ Asks(g, e) =>
          flows'[g].overtaken \/ (r.uid = entries[e].uid /\ r.host = entries[e].host)
    /\ UNCHANGED offers

\* An entry that keeps its address has it alone.
LEMMA OwnIsFree ==
    ASSUME IInv, NEW e \in Entry, Exists(e), ~entries[e].overtaken
    PROVE  /\ \A d \in Entry : d # e /\ entries[d].uid = entries[e].uid => entries[d].overtaken
           /\ \A g \in Flow : Seeks(flows[g]) => flows[g].uid # entries[e].uid
<1>1. OneEntryPerServer /\ Sound(e) /\ \A g \in Flow : Unclaimed(g, flows[g])
  BY DEF IInv, EntriesSound, DialogsFit, Fits
<1>2. \A d \in Entry : d # e /\ entries[d].uid = entries[e].uid => entries[d].overtaken
  BY <1>1 DEF OneEntryPerServer
<1>3. \A g \in Flow : Seeks(flows[g]) => flows[g].uid # entries[e].uid
  BY <1>1, FlowAssumption DEF Unclaimed, Free, Sound
<1>4. QED
  BY <1>2, <1>3

\* That keeps the invariant.
LEMMA WriteStep ==
    ASSUME IInv, NEW f, NEW e, NEW r, Writes(f, e, r),
           r.uid = entries[e].uid /\ ~entries[e].overtaken => Exists(e)
    PROVE  IInv'
<1>1. /\ flows \in [Flow -> DialogType] /\ \A g \in Flow : Fits(g, flows[g])
      /\ entries \in [Entry -> EntryType] /\ \A d \in Entry : Sound(d)
      /\ offers \in [Address -> Key] /\ OneEntryPerServer
  BY DEF IInv, DialogsFit, EntriesSound
<1>2. /\ entries' \in [Entry -> EntryType] /\ entries'[e] = r
      /\ \A d \in Entry : d # e => entries'[d] = entries[d]
  BY <1>1 DEF Writes
<1>3. /\ flows' \in [Flow -> DialogType] /\ flows'[f] = Closed
      /\ \A g \in Flow : g # f => Noted(g)
  BY DEF Writes
<1>4. r # Vacant /\ r \in EntryType /\ f \in Flow /\ e \in Entry
  BY FlowAssumption DEF Vacant, Writes
<1>5. r.overtaken \/ /\ \A d \in Entry : d # e /\ entries[d].uid = r.uid => entries[d].overtaken
                     /\ \A g \in Flow : g # f /\ Seeks(flows[g]) => flows[g].uid # r.uid
  <2>1. CASE Free(f, r.uid)
    BY <2>1 DEF Free
  <2>2. CASE r.uid = entries[e].uid /\ ~entries[e].overtaken
    BY <1>4, <2>2, OwnIsFree
  <2>3. QED
    BY <2>1, <2>2 DEF Writes
<1>6. ASSUME NEW g \in Flow, g # f
      PROVE  /\ flows'[g].step = flows[g].step /\ flows'[g].entry = flows[g].entry
             /\ flows'[g].host = flows[g].host /\ flows'[g].uid = flows[g].uid
             /\ flows'[g].key = flows[g].key /\ flows'[g].trust = flows[g].trust
             /\ flows'[g].shown = flows[g].shown /\ flows'[g].held = flows[g].held
             /\ flows'[g] \in DialogType /\ flows[g] \in DialogType
             /\ flows[g].overtaken => flows'[g].overtaken
  <2>1. flows[g] \in DialogType /\ flows'[g] \in DialogType /\ Noted(g)
    BY <1>1, <1>3, <1>6
  <2>2. CASE flows'[g] = flows[g]
    BY <2>1, <2>2
  <2>3. CASE flows'[g] = [flows[g] EXCEPT !.overtaken = TRUE]
    BY <2>1, <2>3 DEF DialogType
  <2>4. QED
    BY <2>1, <2>2, <2>3 DEF Noted
<1>7. ASSUME NEW g \in Flow  PROVE Fits(g, flows[g])'
  <2>1. CASE g = f
    BY <1>3, <2>1, ClosedFits DEF Fits, HasEntry, Offers, Confirms, Claims, Unclaimed, Seeks, Closed
  <2>2. CASE g # f
    <3>1. Fits(g, flows[g])
      BY <1>1
    <3>2. HasEntry(flows[g])'
      BY <1>2, <1>4, <1>6, <2>2, <3>1 DEF Fits, HasEntry, Exists
    <3>3. Offers(flows[g])'
      BY <1>6, <2>2, <3>1 DEF Fits, Offers
    <3>4. Asks(g, flows[g].entry) => flows'[g].overtaken \/ /\ entries'[flows[g].entry].uid = entries[flows[g].entry].uid
                                                            /\ entries'[flows[g].entry].host = entries[flows[g].entry].host
      <4>1. CASE flows[g].entry = e
        BY <1>2, <2>2, <4>1 DEF Writes
      <4>2. CASE flows[g].entry # e
        <5>1. Asks(g, flows[g].entry) => flows[g].entry \in Entry
          BY <3>1 DEF Asks, Fits, HasEntry
        <5>2. QED
          BY <1>2, <4>2, <5>1
      <4>3. QED
        BY <4>1, <4>2
    <3>5. Confirms(flows[g])'
      BY <1>6, <2>2, <3>1, <3>4 DEF Fits, Confirms, Asks
    <3>6. Claims(flows[g])'
      BY <1>6, <2>2, <3>1, <3>4 DEF Fits, Claims, Asks
    <3>7. ASSUME Seeks(flows[g])', flows'[g].uid # Nowhere  PROVE Free(g, flows[g].uid)'
      <4>1. Seeks(flows[g]) /\ flows'[g].uid = flows[g].uid
        BY <1>6, <2>2, <3>7 DEF Seeks
      <4>2. Free(g, flows[g].uid)
        BY <3>1, <3>7, <4>1 DEF Fits, Unclaimed
      <4>3. \A d \in Entry : entries'[d].uid = flows[g].uid => entries'[d].overtaken
        BY <1>2, <1>5, <2>2, <4>1, <4>2 DEF Free
      <4>4. \A h \in Flow : h # g /\ Seeks(flows[h])' => flows'[h].uid # flows[g].uid
        <5>1. ~Seeks(Closed)
          BY DEF Seeks, Closed
        <5>2. QED
          BY <1>3, <1>6, <4>2, <5>1 DEF Free, Seeks
      <4>5. QED
        BY <4>1, <4>3, <4>4 DEF Free
    <3>8. Unclaimed(g, flows[g])'
      BY <3>7 DEF Unclaimed
    <3>9. QED
      BY <1>6, <2>2, <3>2, <3>3, <3>5, <3>6, <3>8 DEF Fits
  <2>3. QED
    BY <2>1, <2>2
<1>8. \A d \in Entry : Sound(d)'
  <2> SUFFICES ASSUME NEW d \in Entry  PROVE Sound(d)'
    OBVIOUS
  <2>1. CASE d = e
    BY <1>2, <1>4, <2>1 DEF Sound, Exists, Writes
  <2>2. CASE d # e
    BY <1>1, <1>2, <2>2 DEF Sound, Exists
  <2>3. QED
    BY <2>1, <2>2
<1>9. OneEntryPerServer'
  <2> SUFFICES ASSUME NEW c \in Entry, NEW d \in Entry, c # d, Exists(c)', entries'[c].uid = entries'[d].uid
               PROVE  entries'[c].overtaken \/ entries'[d].overtaken
    BY DEF OneEntryPerServer
  <2>1. CASE c = e
    BY <1>2, <1>5, <2>1
  <2>2. CASE d = e
    BY <1>2, <1>5, <2>2
  <2>3. CASE c # e /\ d # e
    BY <1>1, <1>2, <2>3 DEF OneEntryPerServer, Exists
  <2>4. QED
    BY <2>1, <2>2, <2>3
<1>10. QED
  BY <1>1, <1>2, <1>3, <1>7, <1>8, <1>9 DEF IInv, DialogsFit, EntriesSound, Writes

\* Another dialog than the one that writes is left as it was.
LEMMA OthersStay ==
    ASSUME IInv, NEW f \in Flow, flows' = [flows EXCEPT ![f] = Closed]
    PROVE  /\ flows' \in [Flow -> DialogType] /\ flows'[f] = Closed
           /\ \A g \in Flow : g # f => Noted(g)
  BY Present, ClosedFits DEF Fits, Noted

\* The record of a server that was tested is sound.
LEMMA RecordType ==
    ASSUME NEW host \in Address, NEW key \in Key
    PROVE  /\ Record(host, key) \in EntryType
           /\ Record(host, key).uid = host /\ Record(host, key).host = host
           /\ Record(host, key).proven[1] = host /\ Record(host, key).proven[2] = Record(host, key).key
  BY DEF Record, EntryType, Place

\* A new entry has the address its dialog had claimed.
LEMMA CreateKeeps ==
    ASSUME IInv, NEW f \in Flow, Create(f)
    PROVE  IInv'
<1> DEFINE host == flows[f].host
<1>1. PICK e \in Entry : ~Exists(e) /\ entries' = [entries EXCEPT ![e] = Record(host, flows[f].key)]
  BY DEF Create
<1>2. /\ flows[f].step = "testing" /\ flows[f].key \in Key
      /\ host \in Address /\ flows[f].uid = host /\ Unclaimed(f, flows[f])
  BY Present DEF Create, Claims
<1>3. Free(f, host)
  BY <1>2, FlowAssumption DEF Unclaimed, Seeks
<1>4. flows' = [flows EXCEPT ![f] = Closed] /\ UNCHANGED offers
  BY DEF Create, Abort
<1>5. \A g \in Flow : ~Asks(g, e)
  BY <1>1, Present DEF Asks, HasEntry
<1> DEFINE r == Record(host, flows[f].key)
<1>6. r \in EntryType /\ r.uid = host /\ r.host = host /\ r.proven[1] = host /\ r.proven[2] = r.key
  BY <1>2, RecordType
<1>7. entries' = [entries EXCEPT ![e] = r]
  BY <1>1
<1>8. entries[e].uid = Nowhere
  BY <1>1 DEF Exists, Vacant
<1> HIDE DEF r
<1>9. Writes(f, e, r)
  BY <1>1, <1>2, <1>3, <1>4, <1>5, <1>6, <1>7, OthersStay DEF Writes
<1>10. r.uid # entries[e].uid
  BY <1>2, <1>6, <1>8, FlowAssumption
<1>11. QED
  BY <1>9, <1>10, WriteStep

\* An entry moves to its own address or to the one its dialog has claimed.
LEMMA MovedKeeps ==
    ASSUME IInv, NEW f \in Flow, Moved(f)
    PROVE  IInv'
<1> DEFINE host == flows[f].host
           e == flows[f].entry
           late == entries[e].overtaken \/ flows[f].overtaken
           r == [Record(host, flows[f].key) EXCEPT !.overtaken = late]
<1>1. /\ flows[f].step = "trying" /\ flows[f].key \in Key /\ flows[f].overtaken \in BOOLEAN
      /\ host \in Address
      /\ host \in {flows[f].uid, entries[e].uid} \/ flows[f].overtaken
      /\ Unclaimed(f, flows[f]) /\ e \in Entry /\ Exists(e)
      /\ entries \in [Entry -> EntryType] /\ flows \in [Flow -> DialogType] /\ Sound(e)
  BY Present DEF Moved, Claims, HasEntry
<1>2. /\ r \in EntryType /\ r.uid = host /\ r.host = host /\ r.proven[1] = host /\ r.proven[2] = r.key
      /\ r.overtaken = late
  <2>1. late \in BOOLEAN
    OBVIOUS
  <2> HIDE DEF late
  <2>2. /\ r = [uid |-> host, host |-> host, key |-> flows[f].key, proven |-> <<host, flows[f].key>>,
                overtaken |-> late]
        /\ <<host, flows[f].key>> \in Place \X Key /\ host \in Place
    <3>1. /\ Record(host, flows[f].key) = [uid |-> host, host |-> host, key |-> flows[f].key,
                                          proven |-> <<host, flows[f].key>>, overtaken |-> FALSE]
      BY DEF Record
    <3>2. /\ <<host, flows[f].key>> \in Place \X Key /\ host \in Place
      BY <1>1 DEF Place
    <3>3. QED
      BY <3>1, <3>2
  <2> HIDE DEF r
  <2>3. QED
    BY <1>1, <2>1, <2>2 DEF EntryType
<1>3. late \/ Free(f, host) \/ (host = entries[e].uid /\ ~entries[e].overtaken)
  <2>1. CASE host = flows[f].uid
    BY <1>1, <2>1, FlowAssumption DEF Unclaimed, Seeks
  <2>2. CASE host = entries[e].uid
    BY <2>2
  <2>3. QED
    BY <1>1, <2>1, <2>2
<1>4. /\ entries' = [entries EXCEPT ![e] = r] /\ UNCHANGED offers
      /\ flows' = [g \in Flow |-> IF g = f THEN Closed
                                  ELSE IF AwaitsAbout(g, e) THEN [flows[g] EXCEPT !.overtaken = TRUE] ELSE flows[g]]
  BY DEF Moved
<1> HIDE DEF r, late
<1>5. ASSUME NEW g \in Flow, g # f
      PROVE  flows'[g] \in DialogType /\ Noted(g) /\ (Asks(g, e) => flows'[g].overtaken)
  <2>1. flows[g] \in DialogType
    BY <1>1
  <2>2. CASE AwaitsAbout(g, e)
    <3>1. flows'[g] = [flows[g] EXCEPT !.overtaken = TRUE]
      BY <1>4, <1>5, <2>2
    <3>2. QED
      BY <2>1, <3>1 DEF DialogType, Noted
  <2>3. CASE ~AwaitsAbout(g, e)
    BY <1>4, <1>5, <2>1, <2>3 DEF Noted, AwaitsAbout, Asks, Submitted
  <2>4. QED
    BY <2>2, <2>3
<1>6. flows' \in [Flow -> DialogType] /\ flows'[f] = Closed
  <2>1. Closed \in DialogType
    BY ClosedFits DEF Fits
  <2>2. flows'[f] = Closed
    BY <1>4
  <2>3. \A g \in Flow : flows'[g] \in DialogType
    BY <1>5, <2>1, <2>2
  <2>4. QED
    BY <1>4, <2>2, <2>3
<1>7. r.uid \in Address /\ r.host \in Address /\ r.proven[1] = r.host
  BY <1>1, <1>2
<1>8. r.overtaken \/ Free(f, r.uid) \/ (r.uid = entries[e].uid /\ ~entries[e].overtaken)
  BY <1>2, <1>3
<1>9. \A g \in Flow : g # f => Noted(g) /\ (Asks(g, e) => flows'[g].overtaken)
  BY <1>5
<1>10. Writes(f, e, r)
  BY <1>1, <1>2, <1>4, <1>6, <1>7, <1>8, <1>9 DEF Writes
<1>11. QED
  BY <1>1, <1>10, WriteStep

\* A key that is trusted again was tested, with its entry's address unless the
\* entry was moved since.
LEMMA ConfirmedKeeps ==
    ASSUME IInv, NEW f \in Flow, Confirmed(f)
    PROVE  IInv'
<1> DEFINE e == flows[f].entry
           late == entries[e].overtaken \/ flows[f].overtaken
           r == [entries[e] EXCEPT !.key = flows[f].trust, !.proven = <<flows[f].host, flows[f].trust>>,
                                   !.overtaken = late]
<1>1. /\ flows[f].step = "confirming" /\ flows[f].trust \in Key /\ flows[f] \in DialogType
      /\ e \in Entry /\ Exists(e) /\ Sound(e) /\ (flows[f].host = entries[e].host \/ flows[f].overtaken)
  BY Present DEF Confirmed, Confirms, HasEntry
<1>2. entries[e] \in EntryType /\ entries[e].host \in Address /\ entries[e].uid \in Address
  BY <1>1 DEF Sound
<1>3. /\ r \in EntryType /\ r.uid = entries[e].uid /\ r.host = entries[e].host
      /\ r.proven[1] = flows[f].host /\ r.proven[2] = r.key /\ r.overtaken = late
  <2>1. <<flows[f].host, flows[f].trust>> \in Place \X Key
    BY <1>1 DEF DialogType
  <2>2. late \in BOOLEAN
    OBVIOUS
  <2> HIDE DEF late
  <2>3. QED
    BY <1>1, <1>2, <2>1, <2>2 DEF EntryType
<1>4. entries' = [entries EXCEPT ![e] = r] /\ flows' = [flows EXCEPT ![f] = Closed] /\ UNCHANGED offers
  BY <1>1, <1>2 DEF Confirmed, Abort
<1> HIDE DEF r
<1>5. Writes(f, e, r)
  BY <1>1, <1>2, <1>3, <1>4, OthersStay DEF Writes
<1>6. QED
  BY <1>1, <1>5, WriteStep

\* A removed entry takes its dialogs with it.
LEMMA RemoveKeeps ==
    ASSUME IInv, NEW e \in Entry, Remove(e)
    PROVE  IInv'
<1>1. /\ flows \in [Flow -> DialogType] /\ \A g \in Flow : Fits(g, flows[g])
      /\ entries \in [Entry -> EntryType] /\ \A d \in Entry : Sound(d)
      /\ offers \in [Address -> Key] /\ OneEntryPerServer
  BY DEF IInv, DialogsFit, EntriesSound
<1>2. Vacant \in EntryType /\ Closed \in DialogType
  BY DEF Vacant, EntryType, Closed, DialogType, Key, Place
<1>3. /\ entries' \in [Entry -> EntryType] /\ entries'[e] = Vacant
      /\ \A d \in Entry : d # e => entries'[d] = entries[d]
  BY <1>1, <1>2 DEF Remove
<1>4. /\ flows' \in [Flow -> DialogType]
      /\ \A g \in Flow : flows'[g] = IF flows[g].entry = e THEN Closed ELSE flows[g]
  BY <1>1, <1>2 DEF Remove
<1>5. ASSUME NEW g \in Flow  PROVE Fits(g, flows[g])'
  <2>1. CASE flows'[g] = Closed
    BY <1>2, <2>1 DEF Fits, HasEntry, Offers, Confirms, Claims, Unclaimed, Seeks, Closed, Submitted
  <2>2. CASE flows[g].entry # e
    <3>1. flows'[g] = flows[g] /\ Fits(g, flows[g])
      BY <1>1, <1>4, <2>2
    <3>2. HasEntry(flows[g])' /\ Offers(flows[g])' /\ Confirms(flows[g])' /\ Claims(flows[g])'
      BY <1>3, <2>2, <3>1 DEF Fits, HasEntry, Exists, Offers, Confirms, Claims
    <3>3. \A h \in Flow : flows'[h] \in {Closed, flows[h]}
      BY <1>4
    <3>5. Unclaimed(g, flows[g])'
      <4>1. ~Seeks(Closed) /\ Vacant.uid = Nowhere
        BY DEF Seeks, Closed, Vacant
      <4>2. QED
        BY <1>3, <3>1, <3>3, <4>1 DEF Fits, Unclaimed, Free, Seeks
    <3>6. QED
      BY <1>4, <3>1, <3>2, <3>5 DEF Fits
  <2>3. QED
    BY <1>4, <2>1, <2>2
<1>6. \A d \in Entry : Sound(d)'
  BY <1>1, <1>2, <1>3 DEF Sound, Exists, Vacant
<1>7. OneEntryPerServer'
  <2>1. \A c \in Entry : Exists(c) => entries[c].uid # Nowhere
    BY <1>1, FlowAssumption DEF Sound
  <2>2. QED
    BY <1>1, <1>3, <2>1 DEF OneEntryPerServer, Exists, Vacant
<1>8. QED
  BY <1>1, <1>3, <1>4, <1>5, <1>6, <1>7 DEF Remove, IInv, DialogsFit, EntriesSound

-----------------------------------------------------------------------------
(* The theorems                                                            *)

\* Every step keeps the invariant, whatever other answers are awaited.
LEMMA InvStep ==
    ASSUME IInv, [Next]_vars
    PROVE  IInv'
<1>1. ASSUME NEW f \in Flow, Dialog(f)  PROVE IInv'
  <2>1. CASE Close(f)
    BY <2>1, ClosedFits, DialogStep DEF Close, Abort
  <2>2. QED
    BY <1>1, <2>1, FetchedKeeps, SubmitKeyKeeps, OfferedKeeps, SubmitConfirmKeeps, UnconfirmedKeeps, AskedKeeps,
       FailsKeeps, SubmitUserKeeps, SubmitWhereKeeps, OpenKeeps, CreateKeeps, MovedKeeps, ConfirmedKeeps DEF Dialog
<1>2. ASSUME NEW a \in Address, ServerChanges(a)  PROVE IInv'
  <2>1. offers' \in [Address -> Key] /\ UNCHANGED <<entries, flows>>
    BY <1>2 DEF ServerChanges, IInv, Key
  <2>2. QED
    BY <2>1 DEF IInv, DialogsFit, Fits, HasEntry, Offers, Confirms, Claims, Unclaimed, Free, Seeks, EntriesSound, Sound,
                Exists, OneEntryPerServer
<1>3. CASE UNCHANGED vars
  BY <1>3 DEF vars, IInv, DialogsFit, Fits, HasEntry, Offers, Confirms, Claims, Unclaimed, Free, Seeks, EntriesSound, Sound,
              Exists, OneEntryPerServer
<1>4. QED
  BY <1>1, <1>2, <1>3, RemoveKeeps DEF Next

\* Every state of every behaviour has it.
LEMMA InvInductive == Spec => []IInv
<1>1. IInv /\ [Next]_vars => IInv'
  BY InvStep
<1>2. QED
  BY <1>1, InvInit, PTL DEF Spec

\* Types are kept, and an entry that a dialog is about exists while it is.
THEOREM TypeCorrect == Spec => []TypeOK
  BY InvInductive, InvImplies, PTL

\* The key an entry insists on was tested, and with the address it connects to,
\* unless a dialog's answer came after another one had moved the entry.
THEOREM KeysTested == Spec => []KeyOfItsServer
  BY InvInductive, InvImplies, PTL

\* No server is configured twice, unless by such a late answer.
THEOREM ServersDistinct == Spec => []OneEntryPerServer
  BY InvInductive, InvImplies, PTL

\* A dialog about trust that closes leaves the key shown or the one its entry
\* had at the submission, or has lost its entry.
TrustStep ==
    \A f \in Flow :
        LET e == flows[f].entry
        IN  flows[f].step = "confirming" /\ flows'[f] = Closed /\ entries'[e] # Vacant
            => entries'[e].key \in {flows[f].held, flows[f].shown}

LEMMA TrustLemma ==
    ASSUME IInv, [Next]_vars
    PROVE  TrustStep
<1> SUFFICES ASSUME NEW f \in Flow, flows[f].step = "confirming", flows'[f] = Closed,
                    entries'[flows[f].entry] # Vacant
             PROVE  entries'[flows[f].entry].key \in {flows[f].held, flows[f].shown}
  BY DEF TrustStep
<1>1. /\ flows[f].entry \in Entry /\ flows'[f] # flows[f] /\ flows'[f].step = "none"
      /\ flows \in [Flow -> DialogType] /\ flows[f] \in DialogType /\ entries \in [Entry -> EntryType] /\ Confirms(flows[f])
  BY Present DEF HasEntry, Closed
<1>2. CASE Confirmed(f)
  BY <1>1, <1>2 DEF Confirmed, Confirms, EntryType
<1>3. ASSUME Dialog(f)  PROVE Confirmed(f)
  <2>1. CASE Unconfirmed(f)
    <3> DEFINE shown == IF flows[f].key # Down THEN flows[f].key ELSE flows[f].trust
               d == [flows[f] EXCEPT !.step = "confirm", !.trust = Down, !.held = Down, !.overtaken = FALSE,
                                     !.shown = shown]
    <3>1. flows' = [flows EXCEPT ![f] = d]
      BY <2>1 DEF Unconfirmed
    <3> HIDE DEF shown
    <3>2. flows'[f] = d
      BY <1>1, <3>1
    <3>3. flows'[f].step = "confirm"
      BY <1>1, <3>2 DEF DialogType
    <3>4. QED
      BY <1>1, <3>3
  <2>2. QED
    BY <1>3, <2>1 DEF Dialog, Open, Fetched, SubmitKey, Create, SubmitUser, SubmitWhere, Reauth, Reconfigure, Offered,
       SubmitConfirm, Asked, Moved, Fails, Close, Forms
<1>4. ASSUME NEW g \in Flow, Dialog(g), g # f  PROVE FALSE
  <2>0. CASE Moved(g)
    <3>1. flows'[f] \in {flows[f], [flows[f] EXCEPT !.overtaken = TRUE]}
      BY <1>1, <1>4, <2>0 DEF Moved
    <3>2. flows'[f].step = "confirming"
      BY <1>1, <3>1 DEF DialogType
    <3>3. QED
      BY <1>1, <3>2
  <2>1. CASE ~Moved(g)
    <3>1. \E d : flows' = [flows EXCEPT ![g] = d]
      BY <1>4, <2>1 DEF Dialog, Open, Fetched, SubmitKey, Create, SubmitUser, SubmitWhere, Reauth, Reconfigure, Offered,
         Offer, Confirmed, Unconfirmed, SubmitConfirm, Asked, Fails, Close, Abort, To
    <3>2. QED
      BY <1>1, <1>4, <3>1
  <2>2. QED
    BY <2>0, <2>1
<1>5. ASSUME NEW e \in Entry, Remove(e)  PROVE FALSE
  BY <1>1, <1>5 DEF Remove
<1>6. ASSUME NEW a \in Address, ServerChanges(a)  PROVE FALSE
  BY <1>1, <1>6 DEF ServerChanges
<1>7. CASE UNCHANGED vars
  BY <1>1, <1>7 DEF vars
<1>8. QED
  BY <1>2, <1>3, <1>4, <1>5, <1>6, <1>7 DEF Next

\* A key is trusted again only if its fingerprint stood in the form.
THEOREM TrustShown == Spec => TrustsWhatWasShown
<1>1. IInv /\ [Next]_vars => [TrustStep]_vars
  BY TrustLemma
<1>2. QED
  BY <1>1, InvInductive, PTL DEF Spec, TrustsWhatWasShown, TrustStep

=============================================================================
