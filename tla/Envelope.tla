------------------------------ MODULE Envelope ------------------------------
(***************************************************************************)
(* destatis/core/envelope.py: what the client takes a GENESIS reply for.   *)
(*                                                                         *)
(* A reply is a record of what the code looks at: the HTTP status, whether *)
(* the content type says HTML, how the body begins, and of a JSON object   *)
(* its tell-tale keys, its status block and its user name.  A text is the  *)
(* set of the phrases in it that the code searches for.                    *)
(***************************************************************************)
EXTENDS Integers

Phrases == {"system_error", "credentials", "job", "too_large", "logged_in"}
Types == {"error", "warning", "information"}
Usernames == {"absent", "guest", "named"}

\* The status codes the code knows, and others.
OK == 0
NotAuthorized == 15
ParameterAdjusted == 22
TableNotFound == 90
ResultTooLarge == 98
NoObjects == 104

Status(code, text, type) == [code |-> code, text |-> text, type |-> type]

\* keys: the tell-tale keys of the object, the kind of Status among them.
\* fits: the object has the fields its model asks for.
Object(keys, status, username) ==
    [keys |-> keys, status |-> status, username |-> username, fits |-> TRUE]

NoObject == [Object({}, Status(OK, {}, "information"), "absent") EXCEPT !.fits = FALSE]

Reply(http, html, body, object) ==
    [http |-> http, html |-> html, body |-> body, object |-> object]

Model(object) ==
    IF "Status object" \in object.keys THEN "GenesisEnvelope"
    ELSE IF "Status string" \in object.keys THEN "LoginCheckReply"
    ELSE IF {"Code", "Content"} \subseteq object.keys THEN "GenesisStatus"
    ELSE IF "User-Agent" \in object.keys THEN "HelloWorldReply"
    ELSE "none"

\* Fault: the code alone decides whether a status passes, before anything else.
CodeDecides(s) ==
    IF s.code \in {OK, ParameterAdjusted} THEN "pass"
    ELSE IF "system_error" \in s.text THEN "GenesisBackendError"
    ELSE IF s.code = NotAuthorized \/ "credentials" \in s.text THEN "GenesisAuthError"
    ELSE "GenesisUnknownEnvelope"

\* raise_for_status_block.
StatusBlock(s) ==
    IF "system_error" \in s.text THEN "GenesisBackendError"
    ELSE IF s.code = NotAuthorized \/ "credentials" \in s.text THEN "GenesisAuthError"
    ELSE IF "job" \in s.text THEN "GenesisJobAccepted"
    ELSE IF s.code = ResultTooLarge THEN "GenesisResultTooLarge"
    ELSE IF s.code = TableNotFound THEN "GenesisUnknownTable"
    ELSE IF s.code = NoObjects THEN "GenesisEmptySelection"
    ELSE IF s.code \in {OK, ParameterAdjusted} /\ s.type # "error" THEN "pass"
    ELSE IF "too_large" \in s.text THEN "GenesisResultTooLarge"
    ELSE "GenesisUnknownEnvelope"

\* raise_for_logincheck.
LoginCheck(text, username) ==
    IF "system_error" \in text THEN "GenesisBackendError"
    ELSE IF username = "guest" \/ "credentials" \in text THEN "GenesisAuthError"
    ELSE IF "logged_in" \in text THEN IF username = "named" THEN "pass" ELSE "GenesisAuthError"
    ELSE "GenesisUnknownEnvelope"

\* parse_json_reply, then the check that its model calls for.
JsonVerdict(object) ==
    IF Model(object) = "none" \/ ~object.fits THEN "GenesisUnknownEnvelope"
    ELSE IF Model(object) = "LoginCheckReply" THEN LoginCheck(object.status.text, object.username)
    ELSE IF Model(object) = "HelloWorldReply" THEN "pass"
    ELSE StatusBlock(object.status)

\* inspect_response: "zip", "json", or the error it raises.
Inspect(r) ==
    IF r.body = "zip" THEN IF r.http >= 400 THEN "GenesisUnknownEnvelope" ELSE "zip"
    ELSE IF r.html \/ r.body = "markup" THEN "GenesisMaintenance"
    ELSE IF r.body # "object" THEN "GenesisUnknownEnvelope"
    ELSE IF JsonVerdict(r.object) # "pass" THEN JsonVerdict(r.object)
    ELSE IF r.http >= 400 THEN "GenesisUnknownEnvelope" ELSE "json"
=============================================================================
