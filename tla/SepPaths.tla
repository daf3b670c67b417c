------------------------------ MODULE SepPaths ------------------------------
(***************************************************************************)
(* serverless-event-pipeline: SepAggregator with the two paths that write  *)
(* the events table.  An event comes as a row of a file, which the         *)
(* ingestor validates and stores unless its key is taken, or as a Kinesis  *)
(* record, which the transformer validates by rules of its own and stores  *)
(* in any case; or it comes both ways, and several times.  What becomes of *)
(* its entity and its time decides which items are one.                    *)
(*                                                                         *)
(* Spaces around a field are left out, both paths strip them, and fields   *)
(* of a wrong type, which both refuse.                                     *)
(***************************************************************************)
EXTENDS SepAggregator

CONSTANTS
  Event,     \* the events that are sent
  DayLength  \* seconds of a day

\* An entity is written type#id; type or id may be None for an empty text.
\* A time is the second it means, the offset it is written with, and whether
\* it has a fraction; zone says how the offset is written, and is "none" where
\* there is no zone, "unreadable" where the text is not a time.
Zones == {"Z", "offset", "none", "unreadable"}

Texts == {e.entity.type : e \in Event} \cup {e.entity.id : e \in Event}

ASSUME PathsAssumption ==
  /\ DayLength \in Nat \ {0} /\ IsFiniteSet(Event)
  /\ \A e \in Event :
       /\ e.entity \in [type : Texts, id : Texts, capitals : BOOLEAN]
       /\ e.time \in [utc : Nat, offset : Int, fraction : BOOLEAN, zone : Zones]
       /\ e.time.zone # "offset" => e.time.offset = 0
       /\ e.value \in Int \cup {None}
       /\ e.metadata \in {"absent", "null", "dictionary", "other"}
       /\ e.click \in {"absent", "number", "text", "infinite"}

VARIABLE sent   \* history: events a path has stored or found, kept while nothing goes wrong

allVars == <<aggregatorVars, sent>>

-----------------------------------------------------------------------------
(* The ingestor: InputPayload and _put_dynamodb.                           *)

HasBothParts(entity) == entity.type # None /\ entity.id # None

\* Any type of event will do; value may be missing, metadata must not be null.
ValidateAndNormalize(e) ==
  /\ HasBothParts(e.entity)
  /\ e.kind # None
  /\ e.time.zone # "unreadable"
  /\ e.value \in Nat \cup {None}
  /\ e.metadata \in {"absent", "dictionary"}

\* A time without a zone is taken for UTC.
EventDatetime(time) == [time EXCEPT !.offset = 0, !.zone = "Z"]

\* Mutant: isoformat writes the zone as +00:00.
MakeEventIsoformat(time) ==
  [EventDatetime(time) EXCEPT !.fraction = FALSE, !.zone = "offset"]

\* strftime leaves fractions of a second out.
MakeEventSk(time) == [EventDatetime(time) EXCEPT !.fraction = FALSE]

IngestedKey(e) == [entity |-> e.entity, ts |-> MakeEventSk(e.time)]

-----------------------------------------------------------------------------
(* The transformer: transform_record.                                      *)

Supported == {"PURCHASE", "VIEW", "CLICK"}

ValidateSchema(e) ==
  /\ HasBothParts(e.entity)
  /\ e.kind \in Supported

NormalizeEntityId(entity) == [entity EXCEPT !.capitals = TRUE]

\* The text of the time as it was sent, also where it is none.
BuildSortKey(time) == time

MetadataIsUsable(e) == e.metadata # "other"

TransformPurchase(e) == e.value \in Nat /\ MetadataIsUsable(e)

\* A duration that is not a number is dropped, a negative one becomes 0.
TransformView(e) == MetadataIsUsable(e)

\* A coordinate that is not a number is dropped, an infinite one raises.
TransformClick(e) == MetadataIsUsable(e) /\ e.click # "infinite"

ApplyEventTypeRules(e) ==
  CASE e.kind = "PURCHASE" -> TransformPurchase(e)
    [] e.kind = "VIEW" -> TransformView(e)
    [] e.kind = "CLICK" -> TransformClick(e)

\* Whether the record is transformed and not rejected, and its key.
TransformRecord(e) == ValidateSchema(e) /\ ApplyEventTypeRules(e)

TransformedKey(e) == [entity |-> NormalizeEntityId(e.entity), ts |-> BuildSortKey(e.time)]

-----------------------------------------------------------------------------
(* The aggregator reads the items of both.                                 *)

\* The day of a time is that of the zone it is written in; of a text that is no
\* time the first ten letters are the day.
ExtractDate(ts) ==
  IF ts.zone = "unreadable" THEN None ELSE (ts.utc + ts.offset) \div DayLength

AggregateKey(k) == <<k.entity, ExtractDate(k.ts)>>

\* A missing value counts as 0, a type other than the two as neither.
AsRead(kind, value) ==
  [type |-> IF kind \in {"PURCHASE", "VIEW"} THEN kind ELSE "CLICK",
   value |-> IF value = None THEN 0 ELSE value]

IngestedItem(e) == AsRead(e.kind, e.value)
\* The payload of a view or click has no value.
TransformedItem(e) == AsRead(e.kind, IF e.kind = "PURCHASE" THEN e.value ELSE None)

PathKeys == {IngestedKey(e) : e \in Event} \cup {TransformedKey(e) : e \in Event}

\* The table is that of the events, and has room for each.
ASSUME KeysAssumption ==
  /\ Key = PathKeys /\ AggregateOf = [k \in PathKeys |-> AggregateKey(k)]
  /\ Aggregate = {AggregateKey(k) : k \in PathKeys}
  /\ 0 \in Amount /\ \A e \in Event : e.value \in Nat => e.value \in Amount
  /\ \A e \in Event :
       /\ ValidateAndNormalize(e) => IngestedItem(e).type \in TypesOf[IngestedKey(e)]
       /\ TransformRecord(e) => TransformedItem(e).type \in TypesOf[TransformedKey(e)]

-----------------------------------------------------------------------------

InitPaths == AggregatorInit /\ sent = {}

Remember(e) == sent' = IF troubles = {} THEN sent \cup {e} ELSE sent

\* A row whose key is taken counts as stored.
Ingest(e) ==
  /\ ValidateAndNormalize(e)
  /\ Remember(e)
  /\ \/ Insert(IngestedKey(e), IngestedItem(e))
     \/ table[IngestedKey(e)] # None /\ UNCHANGED aggregatorVars

Stream(e) ==
  /\ TransformRecord(e)
  /\ Remember(e)
  /\ \/ Insert(TransformedKey(e), TransformedItem(e))
     \/ Overwrite(TransformedKey(e), TransformedItem(e))

NextPaths ==
  \/ \E e \in Event : Ingest(e) \/ Stream(e)
  \/ /\ \/ \E k \in Key : Expire(k)
        \/ \E n \in 1..BatchSize : Poll(n)
        \/ AggregateRecord \/ AggregateFails \/ Return \/ TimeOut \/ LoseReply
     /\ UNCHANGED sent

SpecPaths == InitPaths /\ [][NextPaths]_allVars

-----------------------------------------------------------------------------

\* Written the way both paths leave it: type in capitals, in UTC, to the second.
Plain(e) ==
  e.entity.capitals /\ e.time.zone = "Z" /\ ~e.time.fraction

SentFor(entity) == {e \in sent : NormalizeEntityId(e.entity) = entity}

\* What the events of an entity and a day are worth, each taken once.
SentWorth(entity, day) ==
  LET events == {e \in SentFor(entity) : e.time.utc \div DayLength = day}
      Sum(f) == SumFunction([e \in events |-> Worth(IngestedItem(e))[f]])
  IN  [f \in DOMAIN Nothing |-> Sum(f)]

(* Each event counts once, on the day it happened, whether it came in a    *)
(* file, in the stream, or both ways and again, in any order, as long as   *)
(* nothing fails or expires, the events of the entity are written plainly, *)
(* and no two of them are of one second.                                   *)
EventsCountOnce ==
  CaughtUp /\ troubles = {} => \A a \in Aggregate :
    LET events == SentFor(a[1])
    IN  /\ a[1].capitals
        /\ \A e \in events : Plain(e)
        /\ \A e, f \in events : e.time.utc = f.time.utc => e = f
        /\ \A b \in Aggregate : expired[b] = Nothing
        => totals[a] = SentWorth(a[1], a[2])
=============================================================================
