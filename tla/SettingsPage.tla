---------------------------- MODULE SettingsPage -----------------------------
(***************************************************************************)
(* The keys of the followed sources, between the settings page (saveConfig *)
(* and the table of gui/app.js) and the server (save-config and            *)
(* build_feeds_from_rows of notifier.py).  A key names the state file of a *)
(* source, hence everything the poller remembers of it.                    *)
(*                                                                         *)
(* The page goes on being edited while a request is on its way; the server *)
(* handles each request at once, under _config_lock.  A row that is        *)
(* renamed keeps its key, which is then that of another label.  Labels     *)
(* like "a" and "a 2", whose keys may meet, are not told apart.            *)
(*                                                                         *)
(* The specification is PageSpec: its theorems are beside those of Sources *)
(* in SourcesProofs, which has an Init and a Spec of its own.              *)
(***************************************************************************)
EXTENDS Naturals, Sequences, FiniteSets, SequencesExt

CONSTANTS Sources,   \* what the user calls one source: one row of the table
          Slugs,     \* labels, as slugify reduces them ("source" for an address alone)
          NoLabel,   \* a row without a text, neither name nor address
          NoKey,     \* a row the server has not named yet
          MaxSaves,  \* bound: number of clicks on Save
          MaxEdits   \* bound: number of rows filled, renamed, emptied or removed

ASSUME SettingsPageAssumption ==
  /\ IsFiniteSet(Sources)
  /\ {MaxSaves, MaxEdits} \subseteq Nat

Requests == 1..MaxSaves

(* slugify gives a slug, then slug_2, slug_3... *)
Keys == Slugs \X (1..Cardinality(Sources))

ASSUME NoKeyAssumption == NoKey \notin Keys /\ NoLabel \notin Slugs

VARIABLES
  table,     \* the rows of the page: [source, label, key]
  config,    \* the feeds of config.json: [source, label, key]
  request,   \* of each click on Save: [step, rows, feeds]
  disturbed, \* the table was edited during a request, or an answer was lost
  edits

pageVars == <<table, config, request, disturbed, edits>>

NoRequest == [step |-> "none", rows |-> <<>>, feeds |-> <<>>]
Ended == [NoRequest EXCEPT !.step = "done"]

PageInit ==
  /\ table = <<>> /\ config = <<>>
  /\ request = [n \in Requests |-> NoRequest]
  /\ disturbed = FALSE /\ edits = 0

Outstanding == \E n \in Requests : request[n].step \in {"sent", "served"}

(* The number of rows with a text among the first k. *)
Rank(rows, k) == Cardinality({j \in 1..k : rows[j].label # NoLabel})

(* The rows with a text, in order. *)
Filled(rows) ==
  LET kept == {k \in DOMAIN rows : rows[k].label # NoLabel}
  IN [i \in 1..Cardinality(kept) |-> rows[CHOOSE k \in kept : Rank(rows, k) = i]]

-----------------------------------------------------------------------------
(* The server *)

(* The slug, or the first of slug_2, slug_3... that no earlier row has. *)
FreeKey(s, taken) ==
  <<s, CHOOSE n \in 1..Cardinality(Sources) :
         <<s, n>> \notin taken /\ \A m \in 1..n-1 : <<s, m>> \in taken>>

(* Slip: an explicit key is always kept. *)
KeyTrusted(row, taken) == IF row.key # NoKey THEN row.key ELSE FreeKey(row.label, taken)

(* An explicit key is kept unless an earlier row has it. *)
KeyFor(row, taken) ==
  IF row.key # NoKey /\ row.key \notin taken THEN row.key ELSE FreeKey(row.label, taken)

(* Row after row: existing_keys holds the keys of the earlier ones. *)
NamedInOrder(rows, keys) ==
  \A i \in DOMAIN rows : keys[i] = KeyFor(rows[i], {keys[j] : j \in 1..i-1})

build_feeds_from_rows(rows) ==
  LET filled == Filled(rows)
      keys == CHOOSE k \in [DOMAIN filled -> Keys] : NamedInOrder(filled, k)
  IN [i \in DOMAIN filled |-> [filled[i] EXCEPT !.key = keys[i]]]

Serve(n) ==
  /\ request[n].step = "sent"
  /\ config' = build_feeds_from_rows(request[n].rows)
  /\ request' = [request EXCEPT ![n] = [step |-> "served", rows |-> <<>>, feeds |-> config']]
  /\ UNCHANGED <<table, disturbed, edits>>

-----------------------------------------------------------------------------
(* The page *)

Edit ==
  /\ edits < MaxEdits /\ edits' = edits + 1
  /\ disturbed' = (disturbed \/ Outstanding)

AddRow(s) ==
  /\ \A r \in Range(table) : r.source # s
  /\ \A f \in Range(config) : f.source # s
  /\ table' = Append(table, [source |-> s, label |-> NoLabel, key |-> NoKey])
  /\ UNCHANGED <<config, request, disturbed, edits>>

(* A row is filled, renamed or emptied: its key stays. *)
Retype(k) ==
  /\ \E l \in (Slugs \cup {NoLabel}) \ {table[k].label} : table' = [table EXCEPT ![k].label = l]
  /\ Edit
  /\ UNCHANGED <<config, request>>

RemoveRow(k) ==
  /\ table' = RemoveAt(table, k)
  /\ Edit
  /\ UNCHANGED <<config, request>>

ClickSave ==
  /\ \E n \in Requests :
       /\ request[n].step = "none" /\ \A m \in 1..n-1 : request[m].step # "none"
       /\ request' = [request EXCEPT ![n] = [step |-> "sent", rows |-> table, feeds |-> <<>>]]
  /\ UNCHANGED <<table, config, disturbed, edits>>

(* Slip: the blank rows count, as they do not on the server. *)
AssignKeysInOrder(feeds) ==
  table' = [k \in DOMAIN table |->
              IF k <= Len(feeds) THEN [table[k] EXCEPT !.key = feeds[k].key] ELSE table[k]]

(* The keys of the answer go to the rows that have a text, in order. *)
AssignKeys(feeds) ==
  table' = [k \in DOMAIN table |->
              IF table[k].label # NoLabel /\ Rank(table, k) <= Len(feeds)
              THEN [table[k] EXCEPT !.key = feeds[Rank(table, k)].key] ELSE table[k]]

Answer(n) ==
  /\ request[n].step = "served"
  /\ AssignKeys(request[n].feeds)
  /\ request' = [request EXCEPT ![n] = Ended]
  /\ UNCHANGED <<config, disturbed, edits>>

(* The request or its answer is lost: the page says that the save failed. *)
Lose(n) ==
  /\ request[n].step \in {"sent", "served"}
  /\ request' = [request EXCEPT ![n] = Ended]
  /\ disturbed' = TRUE
  /\ UNCHANGED <<table, config, edits>>

(* The page is loaded again; earlier answers go nowhere. *)
Reload ==
  /\ ~Outstanding
  /\ table' = config
  /\ UNCHANGED <<config, request, disturbed, edits>>

PageNext ==
  \/ \E s \in Sources : AddRow(s)
  \/ \E k \in DOMAIN table : Retype(k) \/ RemoveRow(k)
  \/ ClickSave \/ Reload
  \/ \E n \in Requests : Serve(n) \/ Answer(n) \/ Lose(n)

PageSpec == PageInit /\ [][PageNext]_pageVars

-----------------------------------------------------------------------------
Feed == [source : Sources, label : Slugs, key : Keys]
Row == [source : Sources, label : Slugs \cup {NoLabel}, key : Keys \cup {NoKey}]
Request == [step : {"none", "sent", "served", "done"}, rows : Seq(Row), feeds : Seq(Feed)]

(* Every variable keeps its type. *)
PageTypes ==
  /\ table \in Seq(Row) /\ config \in Seq(Feed)
  /\ request \in [Requests -> Request]
  /\ disturbed \in BOOLEAN /\ edits \in Nat

(* Two sources never share a key, whatever rows the page sends: they would share a
   state file and silence one another (comment of build_feeds_from_rows). *)
KeysAreDistinct ==
  \A j, k \in DOMAIN config : config[j].key = config[k].key => j = k

(* The table and the configuration: types, and a key for each source. *)
TableInvariant == PageTypes /\ KeysAreDistinct

(* A row of this source is called as the key is, or holds it. *)
Claims(source, key) ==
  \E r \in Range(table) : r.source = source /\ (r.label = key[1] \/ r.key = key)

(* f had its key, and the k-th feed of the new configuration is the same source: it has the same
   key, or a source above it has taken it, whose row claims it. *)
KeptOrTaken(f, k) ==
  \/ config'[k].key = f.key
  \/ \E j \in 1..k-1 : config'[j].key = f.key /\ Claims(config'[j].source, f.key)

(* "La clef existante d'une ligne est réutilisée plutôt que reglissifiée - sinon une source déjà
   active perdrait son historique de dedup" (build_feeds_from_rows).  As long as no row is
   filled, renamed, emptied or removed during a save and no answer is lost, a source keeps its
   key through every later save and through its own renamings, and loses it only to a row above
   that is called by it, or that held it: blank rows, double clicks, new rows and reloads
   change nothing. *)
UndisturbedKeysStay ==
  [][~disturbed' =>
       \A f \in Range(config), k \in DOMAIN config' :
         config'[k].source = f.source => KeptOrTaken(f, k)]_pageVars
=============================================================================
