---------------------------- MODULE ConfigFlow ----------------------------
(***************************************************************************)
(* The dialogs that add a server, move it to another address, or trust it  *)
(* again after its host key changed (config_flow.py), over servers whose   *)
(* host keys change and whose answers may fail.                            *)
(*                                                                         *)
(* A step reaches from one await or form to the next.  What a server does  *)
(* with a test is: take it, which it can only while it offers the key the  *)
(* connection is pinned to, or not (rejected client key, timeout, other    *)
(* host key, not an Unraid).  Nothing serialises the dialogs: any number   *)
(* of them await an answer at the same time, about one entry too.          *)
(***************************************************************************)
EXTENDS FiniteSets

CONSTANTS
    Address,  \* host and port, which is also an entry's unique id
    HostKey,  \* host keys
    Entry,    \* ids of config entries
    Flow,     \* dialogs that can be open at once
    Down      \* a server that cannot be reached, a key that is not known

Nowhere == "nowhere"
NoEntry == "no entry"

ASSUME FlowAssumption ==
    /\ Down \notin HostKey /\ Nowhere \notin Address /\ NoEntry \notin Entry

VARIABLES
    offers,   \* the host key each address offers now
    entries,  \* entry -> its data, Vacant before it exists
    flows     \* dialog -> its step and attributes

vars == <<offers, entries, flows>>

\* History: `proven`, the address and key that the last test was passed with;
\* `overtaken`, a dialog has written what it had asked about the entry before
\* another one moved it.
Vacant == [uid |-> Nowhere, host |-> Nowhere, key |-> Down, proven |-> <<Nowhere, Down>>,
           overtaken |-> FALSE]

\* No dialog, and how one looks that has just been opened.  History: `held`,
\* the entry's key when the form was submitted; `overtaken`, the entry was
\* moved since by another dialog.
Closed == [step |-> "none", entry |-> NoEntry, host |-> Nowhere, uid |-> Nowhere,
           key |-> Down, trust |-> Down, shown |-> Down, held |-> Down, overtaken |-> FALSE]

Forms == {"user", "key", "confirm", "where"}
\* Fetching for a new entry or a move; testing either, or a key to trust again.
Submitted == {"fetching", "testing", "asking", "trying", "confirming"}

Exists(e)      == entries[e] # Vacant
Configured(a)  == \E e \in Entry : entries[e].uid = a
\* Another dialog has this unique id in its context.
InProgress(f, a) == \E g \in Flow \ {f} : flows[g].uid = a

To(f, step) == flows' = [flows EXCEPT ![f].step = step]

-----------------------------------------------------------------------------
(* Adding a server                                                         *)

Open(f) ==
    /\ flows[f].step = "none"
    /\ flows' = [flows EXCEPT ![f] = [Closed EXCEPT !.step = "user"]]
    /\ UNCHANGED <<offers, entries>>

Abort(f) == flows' = [flows EXCEPT ![f] = Closed]

\* Mutation of Taken: an address is free although another dialog asks for it.
TakenByEntry(f, a) == Configured(a)

\* async_set_unique_id and _abort_if_unique_id_configured
Taken(f, a) == InProgress(f, a) \/ Configured(a)

SubmitUser(f, a) ==
    /\ flows[f].step = "user"
    /\ \/ Taken(f, a) /\ Abort(f)
       \/ /\ ~Taken(f, a)
          /\ flows' = [flows EXCEPT ![f].step = "fetching", ![f].host = a, ![f].uid = a]
    /\ UNCHANGED <<offers, entries>>

\* Trust on first use.
Fetched(f) ==
    /\ flows[f].step = "fetching"
    /\ offers[flows[f].host] # Down
    /\ flows' = [flows EXCEPT ![f].step = "key", ![f].key = offers[flows[f].host]]
    /\ UNCHANGED <<offers, entries>>

SubmitKey(f) ==
    /\ flows[f].step = "key"
    /\ To(f, "testing")
    /\ UNCHANGED <<offers, entries>>

\* validate: a connection that is pinned to this key succeeds.
Passes(host, key) == offers[host] = key /\ key # Down

Record(host, key) ==
    [uid |-> host, host |-> host, key |-> key, proven |-> <<host, key>>, overtaken |-> FALSE]

Create(f) ==
    /\ flows[f].step = "testing"
    /\ Passes(flows[f].host, flows[f].key)
    /\ \E e \in Entry : /\ ~Exists(e)
                        /\ entries' = [entries EXCEPT ![e] = Record(flows[f].host, flows[f].key)]
    /\ Abort(f)
    /\ UNCHANGED offers

-----------------------------------------------------------------------------
(* Trusting it again                                                       *)

\* Home Assistant opens one such dialog per entry, after a refused login or
\* an unknown host key; the key on offer is fetched while the form is built.
Reauth(f, e) ==
    /\ flows[f].step = "none" /\ Exists(e)
    /\ \A g \in Flow : ~(flows[g].entry = e /\ flows[g].step \in {"offering", "confirm", "confirming"})
    /\ flows' = [flows EXCEPT ![f] = [Closed EXCEPT !.step = "offering", !.entry = e,
                                          !.host = entries[e].host, !.uid = entries[e].uid]]
    /\ UNCHANGED <<offers, entries>>

Offer(f, key) ==
    flows' = [flows EXCEPT ![f].step = "confirm", ![f].key = key,
                           ![f].shown = IF key # Down THEN key ELSE entries[flows[f].entry].key]

Offered(f) ==
    /\ flows[f].step = "offering"
    /\ \E key \in {offers[flows[f].host], Down} : Offer(f, key)
    /\ UNCHANGED <<offers, entries>>

\* Mutation of TrustedKey: the server is asked again when the box is ticked.
TrustedKeyNow(f, tick) ==
    IF tick THEN offers[entries[flows[f].entry].host] ELSE entries[flows[f].entry].key

TrustedKey(f, tick) ==
    IF tick /\ flows[f].key # Down THEN flows[f].key ELSE entries[flows[f].entry].key

SubmitConfirm(f, tick) ==
    /\ flows[f].step = "confirm"
    /\ flows' = [flows EXCEPT ![f] =
                    [flows[f] EXCEPT !.step = "confirming", !.host = entries[flows[f].entry].host,
                                     !.trust = TrustedKey(f, tick), !.held = entries[flows[f].entry].key]]
    /\ UNCHANGED <<offers, entries>>

\* Mutation of Confirmed: the key is stored before it is tested.
ConfirmedUntested(f) ==
    LET e == flows[f].entry IN
    /\ flows[f].step = "confirming"
    /\ entries' = [entries EXCEPT ![e].key = flows[f].trust]
    /\ Abort(f)
    /\ UNCHANGED offers

\* async_update_reload_and_abort: the key alone is written, whatever the
\* entry's address is by now.
Confirmed(f) ==
    LET e == flows[f].entry IN
    /\ flows[f].step = "confirming"
    /\ Passes(flows[f].host, flows[f].trust)
    /\ entries' = [entries EXCEPT ![e].key = flows[f].trust,
                                  ![e].proven = <<flows[f].host, flows[f].trust>>,
                                  ![e].overtaken = @ \/ flows[f].overtaken]
    /\ Abort(f)
    /\ UNCHANGED offers

\* The form comes again, rendered with what was known at its submission.
Unconfirmed(f) ==
    /\ flows[f].step = "confirming"
    /\ flows' = [flows EXCEPT ![f] =
                    [flows[f] EXCEPT !.step = "confirm", !.trust = Down, !.held = Down, !.overtaken = FALSE,
                                     !.shown = IF flows[f].key # Down THEN flows[f].key ELSE flows[f].trust]]
    /\ UNCHANGED <<offers, entries>>

-----------------------------------------------------------------------------
(* Moving it                                                               *)

Reconfigure(f, e) ==
    /\ flows[f].step = "none" /\ Exists(e)
    /\ flows' = [flows EXCEPT ![f] = [Closed EXCEPT !.step = "where", !.entry = e]]
    /\ UNCHANGED <<offers, entries>>

\* The entry's own address needs no check.
SubmitWhere(f, a) ==
    LET e    == flows[f].entry
        same == a = entries[e].uid
    IN  /\ flows[f].step = "where"
        /\ \/ ~same /\ Taken(f, a) /\ Abort(f)
           \/ /\ same \/ ~Taken(f, a)
              /\ flows' = [flows EXCEPT ![f].step = "asking", ![f].host = a,
                                        ![f].uid = IF same THEN @ ELSE a]
        /\ UNCHANGED <<offers, entries>>

Asked(f) ==
    /\ flows[f].step = "asking"
    /\ offers[flows[f].host] # Down
    /\ flows' = [flows EXCEPT ![f].step = "trying", ![f].key = offers[flows[f].host]]
    /\ UNCHANGED <<offers, entries>>

\* Dialog g awaits an answer about entry e.
AwaitsAbout(g, e) == flows[g].entry = e /\ flows[g].step \in Submitted

\* Address, unique id and key are written; the address is not looked for among
\* the other entries again.
Moved(f) ==
    LET e == flows[f].entry IN
    /\ flows[f].step = "trying"
    /\ Passes(flows[f].host, flows[f].key)
    /\ entries' = [entries EXCEPT ![e] =
                      [Record(flows[f].host, flows[f].key) EXCEPT !.overtaken = entries[e].overtaken \/ flows[f].overtaken]]
    /\ flows' = [g \in Flow |->
                     IF g = f THEN Closed
                     ELSE IF AwaitsAbout(g, e) THEN [flows[g] EXCEPT !.overtaken = TRUE] ELSE flows[g]]
    /\ UNCHANGED offers

-----------------------------------------------------------------------------

\* The form an error leads back to.
FormOf(step) ==
    CASE step = "fetching" -> "user" [] step = "testing" -> "key"
      [] step \in {"asking", "trying"} -> "where"

\* No answer, or an exception: a form with an error.
Fails(f) ==
    /\ flows[f].step \in {"fetching", "testing", "asking", "trying"}
    /\ flows' = [flows EXCEPT ![f].step = FormOf(flows[f].step), ![f].overtaken = FALSE]
    /\ UNCHANGED <<offers, entries>>

Close(f) ==
    /\ flows[f].step \in Forms
    /\ Abort(f)
    /\ UNCHANGED <<offers, entries>>

\* Mutation of Remove: the dialogs about the entry stay open.
RemoveAlone(e) ==
    /\ Exists(e)
    /\ entries' = [entries EXCEPT ![e] = Vacant]
    /\ UNCHANGED <<offers, flows>>

\* Home Assistant deletes an entry and closes the dialogs about it.
Remove(e) ==
    /\ Exists(e)
    /\ entries' = [entries EXCEPT ![e] = Vacant]
    /\ flows' = [f \in Flow |-> IF flows[f].entry = e THEN Closed ELSE flows[f]]
    /\ UNCHANGED offers

\* A server gets another key, goes down or comes up.
ServerChanges(a) ==
    /\ \E key \in HostKey \cup {Down} : offers' = [offers EXCEPT ![a] = key]
    /\ UNCHANGED <<entries, flows>>

Init ==
    /\ offers \in [Address -> HostKey]
    /\ entries = [e \in Entry |-> Vacant]
    /\ flows = [f \in Flow |-> Closed]

Dialog(f) ==
    \/ Open(f) \/ Fetched(f) \/ SubmitKey(f) \/ Create(f)
    \/ \E a \in Address : SubmitUser(f, a) \/ SubmitWhere(f, a)
    \/ \E e \in Entry : Reauth(f, e) \/ Reconfigure(f, e)
    \/ Offered(f) \/ Confirmed(f) \/ Unconfirmed(f)
    \/ \E tick \in BOOLEAN : SubmitConfirm(f, tick)
    \/ Asked(f) \/ Moved(f) \/ Fails(f) \/ Close(f)

Next ==
    \/ \E f \in Flow : Dialog(f)
    \/ \E e \in Entry : Remove(e)
    \/ \E a \in Address : ServerChanges(a)

Spec == Init /\ [][Next]_vars

-----------------------------------------------------------------------------
(* Properties                                                              *)

Key == HostKey \cup {Down}
Place == Address \cup {Nowhere}

\* Every variable keeps its type; a dialog about an entry has one that exists.
TypeOK ==
    /\ offers \in [Address -> Key]
    /\ entries \in [Entry -> [uid : Place, host : Place, key : Key, proven : Place \X Key, overtaken : BOOLEAN]]
    /\ flows \in [Flow -> [step : Forms \cup Submitted \cup {"none", "offering"}, entry : Entry \cup {NoEntry},
                           host : Place, uid : Place, key : Key, trust : Key, shown : Key, held : Key,
                           overtaken : BOOLEAN]]
    /\ \A f \in Flow :
          flows[f].step \in {"offering", "confirm", "confirming", "where", "asking", "trying"} =>
              flows[f].entry \in Entry /\ Exists(flows[f].entry)

\* The host key an entry insists on has passed a test, and with the address it
\* connects to: a key of one server is kept for the address of another only by
\* a dialog that had asked before another one moved the entry
\* (config_flow.py:206, 254, 291).
KeyOfItsServer ==
    \A e \in Entry : /\ entries[e].proven[2] = entries[e].key
                     /\ entries[e].proven[1] = entries[e].host \/ entries[e].overtaken

\* No two entries are the same server, however adding and moving interleave
\* between their answers.  The one way around it is an entry whose own address
\* was being tested when another dialog moved it: the late answer moves it back
\* without a second look (config_flow.py:273, 291).
OneEntryPerServer ==
    \A d, e \in Entry : d # e /\ Exists(d) /\ entries[d].uid = entries[e].uid
                         => entries[d].overtaken \/ entries[e].overtaken

\* Trusting again leaves the entry the key it had when the form was submitted
\* or the one whose fingerprint stood in that form, whatever the server has
\* offered since and whatever other dialogs have made of the entry
\* (config_flow.py:211).
TrustsWhatWasShown ==
    [][\A f \in Flow :
          LET e == flows[f].entry
          IN  flows[f].step = "confirming" /\ flows'[f] = Closed /\ entries'[e] # Vacant
              => entries'[e].key \in {flows[f].held, flows[f].shown}]_vars

=============================================================================
