---------------------------- MODULE ClientEvents ----------------------------
(***************************************************************************)
(* parse_client_event and the except clauses around its call: which of a   *)
(* client's messages reach a handler.  A message is what the checks look   *)
(* at: the kind of its JSON text, its top-level keys, its type, the kind   *)
(* of its payload and the payload's fields.                                *)
(***************************************************************************)
Inbound == {"session.hello", "audio.input.chunk", "audio.input.end", "session.cancel"}

\* _ALLOWED_PAYLOAD_FIELDS
AllowedPayload(type, fields) ==
  CASE type = "session.hello"     -> TRUE
    [] type = "audio.input.chunk" -> fields \subseteq {"pcm_b64"}
    [] type = "audio.input.end"   -> fields = {}
    [] type = "session.cancel"    -> fields \subseteq {"reason"}

\* The code of the error the client gets, or "accepted".
Parse(msg) ==
  IF msg.text = "not json"                           THEN "BAD_JSON"
  ELSE IF msg.text # "object"                        THEN "BAD_EVENT"
  ELSE IF ~(msg.keys \subseteq {"type", "payload"})  THEN "BAD_EVENT"
  ELSE IF msg.type \in {"missing", "not a string", " "} THEN "BAD_EVENT"
  ELSE IF msg.payload \notin {"missing", "null", "object"} THEN "BAD_EVENT"
  ELSE IF msg.type \notin Inbound                    THEN "UNSUPPORTED_EVENT"
  ELSE IF ~AllowedPayload(msg.type, msg.fields)      THEN "BAD_EVENT"
  ELSE "accepted"
=============================================================================
