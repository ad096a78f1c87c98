----------------------------- MODULE MselDecoder -----------------------------
(* libs/msel/src/decoder.cpp: which identifiers the node listens at, and      *)
(* what it takes a frame found there to be.  A frame is                       *)
(*   [id, kind, from, call, code]                                             *)
(* with `kind` what its sender meant by it; the decoder itself only looks at  *)
(* `id`, at how many bytes there are and at whether they have the shape of a  *)
(* configuration response.                                                    *)
(* `from` and `call` are history: who sent it, and the command it answers.    *)
EXTENDS Integers

CONSTANTS MaxStandardId,   \* kMaxStandardId
          ConfigCommandId, \* kConfigCommandId
          NoWatch          \* std::nullopt

VARIABLES base,      \* mAddresses.base
          watch,     \* mResponseWatch
          snapshot   \* mSnapshot: whose data each part holds

decoderVars == <<base, watch, snapshot>>

Periodic == {"status", "info", "switchState"}
Offset   == [status |-> 0, info |-> 1, switchState |-> 3]
Sources  == {"nobody", "relay", "somebodyElse"}

\* protocol.cpp, validateBaseAddress: base + 3 is the highest identifier used,
\* and the span may not cover the configuration identifier.
ValidBase(b) == /\ b + 3 <= MaxStandardId
                /\ ~ (b <= ConfigCommandId /\ ConfigCommandId <= b + 3)

DecoderInit(b) == /\ base = b
                  /\ watch = NoWatch
                  /\ snapshot = [k \in Periodic |-> "nobody"]

\* decodeConfigResponse: eight equal bytes.
IsResponse(f) == f.kind = "response"

\* onFrame up to the periodic decoders: a response counts at the base status
\* identifier, and at the watched identifier when that is another one.
HeardAsResponse(f) == IsResponse(f) /\ f.id \in {base, watch}

\* The generated decode() refuses a frame shorter than its message: the switch
\* state has two bytes, the other two messages eight.
LongEnough(f, k) == f.kind = "switchState" => k = "switchState"

\* Wrong on purpose: the watched identifier falls through to the periodic decoders.
HeardAs_Watched(f, k) == /\ f.id = base + Offset[k]
                         /\ k = "status" => ~ IsResponse(f)
                         /\ LongEnough(f, k)

\* The watched identifier is declined for anything else, before the periodic
\* decoders see it.  Only the status decoder asks for the shape of a response.
HeardAs(f, k) == /\ ~ (f.id = watch /\ f.id # base)
                 /\ f.id = base + Offset[k]
                 /\ k = "status" => ~ IsResponse(f)
                 /\ LongEnough(f, k)

\* Whose reading part k of the snapshot becomes if frame f is decoded as k.
Provenance(f, k) ==
  IF f.from = "relay" /\ f.kind = k THEN "relay" ELSE "somebodyElse"

TakeSnapshot(f) ==
  snapshot' = [k \in Periodic |->
                 IF HeardAs(f, k) THEN Provenance(f, k) ELSE snapshot[k]]
=============================================================================
