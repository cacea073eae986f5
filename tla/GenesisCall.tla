---------------------------- MODULE GenesisCall ----------------------------
(***************************************************************************)
(* One GenesisClient and its calls: destatis/core/auth.py resolves the     *)
(* credentials, destatis/core/api.py sends them and reads what comes back  *)
(* through Envelope.                                                       *)
(*                                                                         *)
(* The hosts are modelled from the replies recorded in tests/fixtures and  *)
(* the documentation's table of statuses: a host means something by a      *)
(* reply, and has several ways to say it.  The locks and retries under a   *)
(* call are GenesisClient.tla's; here they end in a reply or in none.      *)
(***************************************************************************)
EXTENDS Envelope

CONSTANTS Hosts, None

VARIABLES
    environ,    \* per host: which of its three variables are set
    client,     \* the GenesisClient: its arguments and the credentials it has resolved
    request,    \* the last request: where it went, and the credentials in its headers
    at,         \* "idle", or "sent" while a request is out
    meant,      \* history: what the host meant by its last reply
    outcome     \* how the last call ended

vars == <<environ, client, request, at, meant, outcome>>

Suffixes == {"TOKEN", "USER", "PASSWORD"}
Operations == {"whoami", "logincheck", "qualitysigns", "metadata", "tablefile"}
NeedsCredentials == {"logincheck", "metadata", "tablefile"}

\* DestatisCredentials: a token, or user plus password, or both, of one host.
Kinds == (SUBSET {"token", "password"}) \ {{}}
Credentials == [host : Hosts, kinds : Kinds, from : {"option", "environ"}]
Secrets == [host : Hosts, kind : {"token", "password"}, from : {"option", "environ"}]

ASSUME NoneIsNothing == None \notin Credentials \cup Secrets

CredentialErrors == {"MissingCredentialsError", "WrongHostCredentialsError"}
ReplyErrors == {"GenesisBackendError", "GenesisAuthError", "GenesisJobAccepted",
                "GenesisResultTooLarge", "GenesisUnknownTable", "GenesisEmptySelection",
                "GenesisMaintenance", "GenesisUnknownEnvelope"}
Findings == {"done", "outage", "maintenance", "moved", "rejected", "unknown_table", "empty",
             "too_large", "job", "something_new"}

TypeOK ==
    /\ environ \in [Hosts -> SUBSET Suffixes]
    /\ client \in [host : Hosts, explicit : Credentials \cup {None}, allow_guest : BOOLEAN,
                   credentials : Credentials \cup {None}]
    /\ request \in [host : Hosts, operation : Operations, secret : Secrets \cup {None}]
    /\ at \in {"idle", "sent"}
    /\ meant \in Findings \cup {None}
    /\ outcome \in CredentialErrors \cup ReplyErrors \cup {"none", "returned", "transport_error"}

-----------------------------------------------------------------------------
\* What hosts answer

Block(http, keys, s) == Reply(http, FALSE, "object", Object(keys, s, "absent"))

\* An error, nested with HTTP 200 or flat with an HTTP error.
InBothShapes(s) ==
    {Block(200, {"Status object"}, s)} \cup {Block(http, {"Code", "Content"}, s) : http \in {401, 404}}

LoginReply(text, username) ==
    Reply(200, FALSE, "object", Object({"Status string"}, Status(OK, text, "information"), username))

\* The request was carried out, a corrected parameter included.
Done(operation) ==
    CASE operation = "tablefile" -> {Reply(200, html, "zip", NoObject) : html \in BOOLEAN}
      [] operation = "logincheck" -> {LoginReply({"logged_in"}, "named")}
      [] operation = "whoami" -> {Block(200, {"User-Agent"}, NoObject.status)}
      [] OTHER -> {Block(200, {"Status object"}, s) : s \in
                     {Status(OK, text, "information") : text \in {{}, {"too_large"}}} \cup
                     {Status(ParameterAdjusted, text, "warning") : text \in {{}, {"too_large"}}}}

Outage(operation) ==
    IF operation = "logincheck"
    THEN {LoginReply({"system_error"}, username) : username \in {"guest", "named"}}
    ELSE InBothShapes(Status(2, {"system_error"}, "error"))

\* The credentials are none, unknown or of another host.  A guest's logincheck
\* succeeds in words; some hosts answer as in an outage.
Rejected(operation) ==
    Outage(operation) \cup
    IF operation = "logincheck"
    THEN {LoginReply({"logged_in"}, username) : username \in {"guest", "absent"}}
         \cup {LoginReply({"credentials"}, "named")}
    ELSE InBothShapes(Status(2, {"credentials"}, "error"))
         \cup InBothShapes(Status(NotAuthorized, {"credentials"}, "error"))

\* What nobody has seen yet: other codes, shapes and combinations.
NewStatuses == {Status(4711, {}, "information"), Status(OK, {}, "error")}
NewBodies == {Reply(200, FALSE, body, NoObject) : body \in {"text", "list", "object"}}
Unfit == [Object({"Status object"}, NoObject.status, "absent") EXCEPT !.fits = FALSE]
NewShapes == {Block(200, {"Code"}, Status(OK, {}, "information")), Block(418, {"User-Agent"}, NoObject.status),
              Reply(403, FALSE, "zip", NoObject), Reply(200, FALSE, "object", Unfit)}
OfOthers(operation) == (UNION {Done(o) : o \in Operations}) \ Done(operation)

SomethingNew(operation) ==
    (UNION {InBothShapes(s) : s \in NewStatuses}) \cup NewBodies \cup NewShapes \cup OfOthers(operation)

Replies(operation, finding) ==
    CASE finding = "done" -> Done(operation)
      [] finding = "outage" -> Outage(operation)
      [] finding = "rejected" -> Rejected(operation)
      [] finding = "maintenance" -> {Reply(200, TRUE, "text", NoObject), Reply(404, FALSE, "markup", NoObject)}
      [] finding = "unknown_table" -> InBothShapes(Status(TableNotFound, {}, "error"))
      [] finding = "empty" -> InBothShapes(Status(NoObjects, {}, "information"))
      [] finding = "too_large" -> InBothShapes(Status(ResultTooLarge, {"too_large"}, "error"))
                                  \cup InBothShapes(Status(1, {"too_large"}, "information"))
      [] finding = "job" -> InBothShapes(Status(99, {"job"}, "information"))
      [] OTHER -> SomethingNew(operation)

\* What a host may mean by its reply to a request.
Meanings(r) ==
    LET mayAccept == r.operation \notin NeedsCredentials \/ (r.secret # None /\ r.secret.host = r.host)
        ofTables == IF r.operation = "tablefile" THEN {"empty", "too_large", "job"} ELSE {}
        ofData == IF r.operation \in {"metadata", "tablefile"} THEN {"unknown_table"} ELSE {}
    IN  {"maintenance", "something_new"}
        \cup (IF r.operation \in NeedsCredentials THEN {"outage", "rejected"} ELSE {})
        \cup (IF mayAccept THEN {"done"} \cup ofTables \cup ofData ELSE {})

-----------------------------------------------------------------------------
\* Credentials

NoCredentials(why) == [error |-> why, credentials |-> None]
Found(c) == [error |-> "none", credentials |-> c]

HalfSet(set) == ("USER" \in set) # ("PASSWORD" \in set)

FromSet(host, set) ==
    Found([host |-> host, from |-> "environ",
           kinds |-> {k \in {"token", "password"} : IF k = "token" THEN "TOKEN" \in set ELSE "USER" \in set}])

\* Fault: the token is enough, whatever else is set.
TokenIsEnough(host, set) ==
    IF "TOKEN" \notin set /\ (HalfSet(set) \/ set = {}) THEN NoCredentials("MissingCredentialsError")
    ELSE FromSet(host, set)

\* from_env: nothing set and a half-set pair are errors alike here.
FromEnv(host, set) ==
    IF set = {} \/ HalfSet(set) THEN NoCredentials("MissingCredentialsError")
    ELSE FromSet(host, set)

\* resolve_credentials.
Resolve(c) ==
    IF c.explicit = None THEN FromEnv(c.host, environ[c.host])
    ELSE IF c.explicit.host # c.host THEN NoCredentials("WrongHostCredentialsError")
    ELSE Found(c.explicit)

\* The credentials property: resolved once, then kept.
Resolved(c) == IF c.credentials # None THEN Found(c.credentials) ELSE Resolve(c)

\* headers: the token if there is one.
Header(c) == [host |-> c.host, from |-> c.from,
              kind |-> IF "token" \in c.kinds THEN "token" ELSE "password"]

RunsAsGuest(c) ==
    /\ c.allow_guest /\ c.explicit = None
    /\ FromEnv(c.host, environ[c.host]).credentials = None

\* Fault: where guests are allowed, the credentials just found in the environment are sent,
\* whatever the client has kept.
FoundJustNow(c) ==
    Header(IF c.allow_guest /\ c.explicit = None THEN FromEnv(c.host, environ[c.host]).credentials
           ELSE Resolved(c).credentials)

\* _auth_headers of one who is no guest.
AuthHeaders(c) == Header(Resolved(c).credentials)

-----------------------------------------------------------------------------
\* The client

NewClient(host, explicit, guest) ==
    [host |-> host, explicit |-> explicit, allow_guest |-> guest, credentials |-> None]

Init ==
    /\ environ \in [Hosts -> SUBSET Suffixes]
    /\ \E host \in Hosts, explicit \in {c \in Credentials : c.from = "option"} \cup {None}, guest \in BOOLEAN :
        /\ client = NewClient(host, explicit, guest)
        /\ request = [host |-> host, operation |-> "whoami", secret |-> None]
    /\ at = "idle"
    /\ meant = None
    /\ outcome = "none"

Send(operation, secret) ==
    /\ request' = [host |-> client.host, operation |-> operation, secret |-> secret]
    /\ at' = "sent"
    /\ outcome' = "none"

\* request, up to the first attempt: the attempts all carry the same headers.
Call(operation) ==
    LET found == Resolved(client) IN
    /\ at = "idle"
    /\ \/ /\ operation \notin NeedsCredentials \/ RunsAsGuest(client)
          /\ Send(operation, None)
          /\ UNCHANGED client
       \/ /\ operation \in NeedsCredentials /\ ~RunsAsGuest(client) /\ found.credentials # None
          /\ Send(operation, AuthHeaders(client))
          /\ client' = [client EXCEPT !.credentials = found.credentials]
       \/ /\ operation \in NeedsCredentials /\ ~RunsAsGuest(client) /\ found.credentials = None
          /\ outcome' = found.error
          /\ UNCHANGED <<request, at, client>>
    /\ meant' = None
    /\ UNCHANGED environ

Expects(operation) ==
    CASE operation = "whoami" -> "HelloWorldReply"
      [] operation = "logincheck" -> "LoginCheckReply"
      [] OTHER -> "GenesisEnvelope"

\* inspect_response, then what whoami, logincheck, qualitysigns, metadata_table and
\* fetch_tablefile ask of the reply.
Outcome(operation, r) ==
    IF Inspect(r) \in ReplyErrors THEN Inspect(r)
    ELSE IF operation = "tablefile"
         THEN IF Inspect(r) = "zip" THEN "returned" ELSE "GenesisUnknownEnvelope"
    ELSE IF Inspect(r) = "json" /\ Model(r.object) = Expects(operation) THEN "returned"
    ELSE "GenesisUnknownEnvelope"

\* Fault: the redirect is followed, headers and all, and the other host answers.
FollowRedirect ==
    /\ at = "sent"
    /\ \E host \in Hosts \ {client.host} : request' = [request EXCEPT !.host = host]
    /\ UNCHANGED <<environ, client, at, meant, outcome>>

\* A redirect is an error of its own.
Redirected ==
    /\ at = "sent"
    /\ at' = "idle"
    /\ meant' = "moved"
    /\ outcome' = "GenesisUnknownEnvelope"
    /\ UNCHANGED <<environ, client, request>>

Answered ==
    /\ at = "sent"
    /\ at' = "idle"
    /\ \E finding \in Meanings(request) :
        /\ meant' = finding
        /\ \E r \in Replies(request.operation, finding) : outcome' = Outcome(request.operation, r)
    /\ UNCHANGED <<environ, client, request>>

\* The attempts are used up, or a lock is not had.
NoAnswer ==
    /\ at = "sent"
    /\ at' = "idle"
    /\ outcome' \in {"GenesisBackendError", "transport_error"}
    /\ UNCHANGED <<environ, client, request, meant>>

\* Somebody sets or unsets a variable of the process.
SetEnviron ==
    /\ \E host \in Hosts, set \in SUBSET Suffixes : environ' = [environ EXCEPT ![host] = set]
    /\ UNCHANGED <<client, request, at, meant, outcome>>

Next ==
    \/ \E operation \in Operations : Call(operation)
    \/ Redirected \/ Answered \/ NoAnswer \/ SetEnviron

Spec == Init /\ [][Next]_vars

-----------------------------------------------------------------------------
\* Properties

\* "Credentials scoped to one host are refused on the other, and env resolution never
\* falls back across hosts": a request carries credentials of the host it goes to,
\* those given to the client if any were, and goes without only where none are
\* needed or the client allows guests.  Those it carries are the ones the client keeps,
\* which are the ones _secrets scrubs from what the host answers, whatever the environment
\* has come to say since and whatever the guest test finds in it.
OwnCredentials ==
    /\ request.secret # None =>
          /\ client.credentials # None /\ request.secret = Header(client.credentials)
          /\ request.secret.host = request.host
          /\ request.secret.from = "option" <=> client.explicit # None
    /\ request.secret = None =>
          request.operation \notin NeedsCredentials \/ (client.allow_guest /\ client.explicit = None)

\* "A half-set pair is an error, never a fallback to the token or to the other host":
\* no request takes its credentials from an environment with half a pair in it.
HalfPairIsNoSource ==
    [][client'.credentials # client.credentials /\ client'.credentials.from = "environ"
          => ~HalfSet(environ[client.host])]_vars

\* What the caller is told is what the host meant, in whichever shape, code and text
\* it said so: nothing but success is returned as success, a success is never
\* taken for an error because of its words, and what the client does not know is
\* called unknown.  A rejection may be told as the outage some hosts make of it.
Diagnosed ==
    at = "idle" /\ meant # None =>
        outcome \in CASE meant = "done" -> {"returned"}
                      [] meant = "outage" -> {"GenesisBackendError"}
                      [] meant = "rejected" -> {"GenesisAuthError", "GenesisBackendError"}
                      [] meant = "maintenance" -> {"GenesisMaintenance"}
                      [] meant = "unknown_table" -> {"GenesisUnknownTable"}
                      [] meant = "empty" -> {"GenesisEmptySelection"}
                      [] meant = "too_large" -> {"GenesisResultTooLarge"}
                      [] meant = "job" -> {"GenesisJobAccepted"}
                      [] OTHER -> {"GenesisUnknownEnvelope"}
=============================================================================
