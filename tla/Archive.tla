------------------------------- MODULE Archive -------------------------------
(***************************************************************************)
(* What a TraceDB archive promises to the code that writes it, free of     *)
(* tables, transactions and connections:                                   *)
(*                                                                         *)
(*   - a session is known by the last parse of it that was accepted;       *)
(*   - every native source ever captured for a session stays available as  *)
(*     it was last captured, even after a later parse stops naming it;     *)
(*   - a batch is accepted as a whole, in order, or not at all;            *)
(*   - merging another archive adds what is missing and changes nothing.   *)
(*                                                                         *)
(* ArchiveStore.tla is shown to implement this specification.              *)
(***************************************************************************)
EXTENDS Naturals, Sequences

CONSTANTS
  Sessions,   \* session ids
  Locators,   \* native source locators
  Contents,   \* captured bytes, one value per distinct SHA-256
  Streams,    \* normalized event streams
  Prints,     \* candidate fingerprints
  Batches,    \* the sequences of parsed sessions callers hand to upsert_many
  None        \* SQL NULL, and "no such session" for a parent edge

\* One ParsedSession: its identity, lineage edge, fingerprint, event stream,
\* and the native sources it was read from with the bytes they are captured as.
ParsedSession ==
  [id : Sessions, parent : Sessions \cup {None}, print : Prints,
   stream : Streams, sources : SUBSET (Locators \X Contents)]

Facts == [parent : Sessions \cup {None}, print : Prints, stream : Streams]

VARIABLES
  latest,     \* latest[s]: the set holding the facts of the last accepted parse
  captured,   \* captured[s][l]: the bytes last captured at l for s, or None
  published   \* what the last backup holds: <<latest, captured>>

avars == <<latest, captured, published>>

Unknown == [s \in Sessions |-> {}]
Nothing == [s \in Sessions |-> [l \in Locators |-> None]]

AInit ==
  /\ latest = Unknown
  /\ captured = Nothing
  /\ published = <<Unknown, Nothing>>

FactsOf(p) == [parent |-> p.parent, print |-> p.print, stream |-> p.stream]

\* The position of the last parse in b that satisfies P, or 0.
LastIn(b, P(_)) ==
  IF \E i \in DOMAIN b : P(b[i])
    THEN CHOOSE i \in DOMAIN b :
           P(b[i]) /\ \A j \in DOMAIN b : P(b[j]) => j <= i
    ELSE 0

Accept(b) ==
  /\ latest' =
       [s \in Sessions |->
         LET i == LastIn(b, LAMBDA p : p.id = s)
         IN  IF i = 0 THEN latest[s] ELSE {FactsOf(b[i])}]
  /\ captured' =
       [s \in Sessions |-> [l \in Locators |->
         LET i == LastIn(b, LAMBDA p : p.id = s /\ \E o \in Contents : <<l, o>> \in p.sources)
         IN  IF i = 0 THEN captured[s][l]
             ELSE CHOOSE o \in Contents : <<l, o>> \in b[i].sources]]
  /\ UNCHANGED published

\* The other archive may know more sessions and more snapshots, but must agree
\* on everything both of them know.
Compatible(other) ==
  \A s \in Sessions : latest[s] # {} /\ other[1][s] # {} =>
    /\ latest[s] = other[1][s]
    /\ \A l \in Locators :
         captured[s][l] # None /\ other[2][s][l] # None =>
           captured[s][l] = other[2][s][l]

MergeBackup ==
  /\ Compatible(published)
  /\ latest' = [s \in Sessions |-> latest[s] \cup published[1][s]]
  /\ captured' = [s \in Sessions |-> [l \in Locators |->
       IF captured[s][l] = None THEN published[2][s][l] ELSE captured[s][l]]]
  /\ UNCHANGED published

TakeBackup ==
  /\ published' = <<latest, captured>>
  /\ UNCHANGED <<latest, captured>>

Discard ==
  /\ latest' = Unknown
  /\ captured' = Nothing
  /\ UNCHANGED published

ANext ==
  \/ \E b \in Batches : Accept(b)
  \/ MergeBackup
  \/ TakeBackup
  \/ Discard

ASpec == AInit /\ [][ANext]_avars
=============================================================================
