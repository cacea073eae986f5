------------------------- MODULE GenesisCallProofs -------------------------
(***************************************************************************)
(* For any set of hosts: a client's requests carry credentials of their    *)
(* own host or none, and never half a pair; and the caller is told what    *)
(* the host meant, for every reply it may give.                            *)
(***************************************************************************)
EXTENDS GenesisCall, TLAPS

\* A client's credentials, once resolved, are of its host, and explicit ones are the
\* caller's.
ResolvedOK ==
    client.credentials # None =>
        /\ client.credentials.host = client.host
        /\ client.credentials.from = "option" <=> client.explicit # None

\* Explicit credentials come from the caller, and requests go to the client's host.
OriginOK ==
    /\ client.explicit # None => client.explicit.from = "option"
    /\ request.host = client.host

Inv == TypeOK /\ ResolvedOK /\ OriginOK /\ OwnCredentials

-----------------------------------------------------------------------------
\* Operators

\* The environment has whole credentials of the host it is read for, or none.
LEMMA FromEnvType ==
    ASSUME NEW host \in Hosts, NEW set \in SUBSET Suffixes
    PROVE  LET f == FromEnv(host, set) IN
           \/ f.credentials = None /\ f.error \in CredentialErrors
           \/ /\ f.credentials \in Credentials
              /\ f.credentials.host = host
              /\ f.credentials.from = "environ"
              /\ ~HalfSet(set)
<1> DEFINE kinds == {k \in {"token", "password"} : IF k = "token" THEN "TOKEN" \in set ELSE "USER" \in set}
<1>1. CASE set = {} \/ HalfSet(set)
  BY <1>1 DEF FromEnv, NoCredentials, CredentialErrors
<1>2. CASE ~(set = {} \/ HalfSet(set))
  <2>1. kinds # {}
    <3>1. "TOKEN" \in set \/ "USER" \in set
      BY <1>2 DEF HalfSet, Suffixes
    <3>2. "token" \in kinds \/ "password" \in kinds
      BY <3>1
    <3> QED
      BY <3>2
  <2>2. FromEnv(host, set).credentials = [host |-> host, from |-> "environ", kinds |-> kinds]
    BY <1>2 DEF FromEnv, FromSet, Found
  <2>3. kinds \in Kinds
    BY <2>1 DEF Kinds
  <2> QED
    BY <1>2, <2>2, <2>3 DEF Credentials
<1> QED
  BY <1>1, <1>2

\* So has a client.
LEMMA ResolvedType ==
    ASSUME TypeOK, ResolvedOK, OriginOK
    PROVE  LET f == Resolved(client) IN
           \/ f.credentials = None /\ f.error \in CredentialErrors
           \/ /\ f.credentials \in Credentials
              /\ f.credentials.host = client.host
              /\ f.credentials.from = "option" <=> client.explicit # None
              /\ \/ f.credentials = client.credentials
                 \/ f.credentials.from = "environ" => ~HalfSet(environ[client.host])
<1>1. /\ client.host \in Hosts /\ environ[client.host] \in SUBSET Suffixes
      /\ client.explicit \in Credentials \cup {None}
      /\ client.credentials \in Credentials \cup {None}
  BY DEF TypeOK
<1>2. CASE client.credentials # None
  BY <1>1, <1>2 DEF Resolved, Found, ResolvedOK
<1>3. CASE client.credentials = None /\ client.explicit = None
  <2>1. Resolved(client) = FromEnv(client.host, environ[client.host])
    BY <1>3 DEF Resolved, Resolve
  <2> QED
    BY <1>1, <1>3, <2>1, FromEnvType
<1>4. CASE client.credentials = None /\ client.explicit # None
  <2>1. CASE client.explicit.host # client.host
    BY <1>4, <2>1 DEF Resolved, Resolve, NoCredentials, CredentialErrors
  <2>2. CASE client.explicit.host = client.host
    BY <1>1, <1>4, <2>2 DEF Resolved, Resolve, Found, OriginOK
  <2> QED
    BY <2>1, <2>2
<1> QED
  BY <1>2, <1>3, <1>4

\* Headers are of the credentials they are made from.
LEMMA HeaderType ==
    ASSUME NEW c \in Credentials
    PROVE  Header(c) \in Secrets /\ Header(c).host = c.host /\ Header(c).from = c.from
BY DEF Header, Credentials, Secrets

\* A call ends in a result or in one of the errors.
LEMMA OutcomeType ==
    ASSUME NEW operation, NEW r
    PROVE  Outcome(operation, r) \in ReplyErrors \cup {"returned"}
BY DEF Outcome, ReplyErrors

-----------------------------------------------------------------------------
\* The invariant

LEMMA InvInit == Init => Inv
<1> SUFFICES ASSUME Init PROVE Inv
  OBVIOUS
<1> USE DEF Init, NewClient
<1>1. TypeOK
  BY DEF TypeOK, Operations
<1>2. ResolvedOK /\ OriginOK
  BY DEF ResolvedOK, OriginOK
<1>3. OwnCredentials
  BY DEF OwnCredentials, NeedsCredentials
<1> QED
  BY <1>1, <1>2, <1>3 DEF Inv

LEMMA InvStep == Inv /\ [Next]_vars => Inv'
<1> SUFFICES ASSUME Inv, [Next]_vars PROVE Inv'
  OBVIOUS
<1>0. TypeOK /\ ResolvedOK /\ OriginOK /\ OwnCredentials
  BY DEF Inv
<1>1. ASSUME NEW operation \in Operations, Call(operation) PROVE Inv'
  <2> DEFINE found == Resolved(client)
  <2>1. CASE /\ operation \notin NeedsCredentials \/ RunsAsGuest(client)
             /\ Send(operation, None)
             /\ UNCHANGED client
    <3>1. operation \notin NeedsCredentials \/ (client.allow_guest /\ client.explicit = None)
      BY <2>1 DEF RunsAsGuest
    <3>2. TypeOK'
      BY <1>0, <1>1, <2>1 DEF TypeOK, Call, Send
    <3>3. ResolvedOK' /\ OriginOK'
      BY <1>0, <2>1 DEF ResolvedOK, OriginOK, Send
    <3>4. OwnCredentials'
      BY <2>1, <3>1 DEF OwnCredentials, Send
    <3> QED
      BY <3>2, <3>3, <3>4 DEF Inv
  <2>2. CASE /\ operation \in NeedsCredentials /\ ~RunsAsGuest(client) /\ found.credentials # None
             /\ Send(operation, AuthHeaders(client))
             /\ client' = [client EXCEPT !.credentials = found.credentials]
    <3>1. /\ found.credentials \in Credentials
          /\ found.credentials.host = client.host
          /\ found.credentials.from = "option" <=> client.explicit # None
      BY <1>0, <2>2, ResolvedType
    <3>2. Header(found.credentials) \in Secrets /\ Header(found.credentials) # None
      BY <3>1, HeaderType, NoneIsNothing
    <3>0. Send(operation, Header(found.credentials))
      BY <2>2 DEF AuthHeaders
    <3>3. /\ client' \in [host : Hosts, explicit : Credentials \cup {None}, allow_guest : BOOLEAN,
                          credentials : Credentials \cup {None}]
          /\ client'.host = client.host /\ client'.explicit = client.explicit
          /\ client'.credentials = found.credentials
      BY <1>0, <2>2, <3>1 DEF TypeOK
    <3>4. TypeOK'
      BY <1>0, <1>1, <2>2, <3>0, <3>2, <3>3 DEF TypeOK, Call, Send
    <3>5. ResolvedOK' /\ OriginOK'
      BY <1>0, <2>2, <3>1, <3>3 DEF ResolvedOK, OriginOK, Send
    <3>6. OwnCredentials'
      BY <2>2, <3>0, <3>1, <3>2, <3>3, HeaderType, NoneIsNothing DEF OwnCredentials, Send
    <3> QED
      BY <3>4, <3>5, <3>6 DEF Inv
  <2>3. CASE /\ found.credentials = None
             /\ outcome' = found.error
             /\ UNCHANGED <<request, at, client>>
    <3>1. found.error \in CredentialErrors
      BY <1>0, <2>3, ResolvedType, NoneIsNothing
    <3>2. TypeOK'
      BY <1>0, <1>1, <2>3, <3>1 DEF TypeOK, Call
    <3> QED
      BY <1>0, <2>3, <3>2 DEF Inv, ResolvedOK, OriginOK, OwnCredentials
  <2> QED
    BY <1>1, <2>1, <2>2, <2>3 DEF Call
<1>2. CASE Redirected
  BY <1>0, <1>2 DEF Inv, Redirected, TypeOK, Findings, ReplyErrors, ResolvedOK, OriginOK, OwnCredentials
<1>3. CASE Answered
  <2>1. meant' \in Findings
    BY <1>3 DEF Answered, Meanings, Findings
  <2>2. outcome' \in ReplyErrors \cup {"returned"}
    BY <1>3, OutcomeType DEF Answered
  <2> QED
    BY <1>0, <1>3, <2>1, <2>2 DEF Inv, Answered, TypeOK, ResolvedOK, OriginOK, OwnCredentials
<1>4. CASE NoAnswer
  BY <1>0, <1>4 DEF Inv, NoAnswer, TypeOK, ReplyErrors, ResolvedOK, OriginOK, OwnCredentials
<1>5. CASE SetEnviron
  BY <1>0, <1>5 DEF Inv, SetEnviron, TypeOK, ResolvedOK, OriginOK, OwnCredentials
<1>6. CASE UNCHANGED vars
  BY <1>0, <1>6 DEF Inv, vars, TypeOK, ResolvedOK, OriginOK, OwnCredentials
<1> QED
  BY <1>1, <1>2, <1>3, <1>4, <1>5, <1>6 DEF Next

\* The invariant: what a client has resolved is of its host, explicit where it was
\* given credentials, and so is what its requests carry.
THEOREM Invariance == Spec => []Inv
<1> QED
  BY InvInit, InvStep, PTL DEF Spec

\* Every variable keeps its type.
THEOREM TypeCorrect == Spec => []TypeOK
<1>1. Inv => TypeOK
  BY DEF Inv
<1> QED
  BY <1>1, Invariance, PTL

\* No request carries credentials of another host than its own, or of another source
\* than the client was given, and none that needs credentials goes without unless
\* the client allows guests.
THEOREM HostScoping == Spec => []OwnCredentials
<1>1. Inv => OwnCredentials
  BY DEF Inv
<1> QED
  BY <1>1, Invariance, PTL

\* Half a pair in the environment is never a source of credentials.
THEOREM WholePairs == Spec => HalfPairIsNoSource
<1>1. Inv /\ [Next]_vars =>
         [client'.credentials # client.credentials /\ client'.credentials.from = "environ"
            => ~HalfSet(environ[client.host])]_vars
  <2> SUFFICES ASSUME Inv, Next,
                      client'.credentials # client.credentials,
                      client'.credentials.from = "environ"
               PROVE  ~HalfSet(environ[client.host])
    BY DEF vars
  <2>0. TypeOK /\ ResolvedOK /\ OriginOK
    BY DEF Inv
  <2>1. PICK operation \in Operations : Call(operation) /\ client' # client
    BY DEF Next, Redirected, Answered, NoAnswer, SetEnviron
  <2>2. /\ Resolved(client).credentials # None
        /\ client' = [client EXCEPT !.credentials = Resolved(client).credentials]
    BY <2>1 DEF Call
  <2>3. client'.credentials = Resolved(client).credentials
    BY <2>0, <2>2 DEF TypeOK
  <2> QED
    BY <2>0, <2>2, <2>3, ResolvedType
<1> QED
  BY <1>1, Invariance, PTL DEF Spec, HalfPairIsNoSource

-----------------------------------------------------------------------------
\* What the client makes of each reply

\* The words of each outcome.
Fits(finding, told) ==
    told \in CASE finding = "done" -> {"returned"}
               [] finding = "outage" -> {"GenesisBackendError"}
               [] finding = "rejected" -> {"GenesisAuthError", "GenesisBackendError"}
               [] finding = "maintenance" -> {"GenesisMaintenance"}
               [] finding = "unknown_table" -> {"GenesisUnknownTable"}
               [] finding = "empty" -> {"GenesisEmptySelection"}
               [] finding = "too_large" -> {"GenesisResultTooLarge"}
               [] finding = "job" -> {"GenesisJobAccepted"}
               [] OTHER -> {"GenesisUnknownEnvelope"}

\* How a reply is read, whatever its fields came from.
InJson(r, http) == r.http = http /\ ~r.html /\ r.body = "object"
Keyed(r, keys) == r.object.keys = keys /\ r.object.fits = TRUE
Says(r, s) == r.object.status = s

LEMMA InspectObject ==
    ASSUME NEW r, NEW http, InJson(r, http), http \in Int, NEW told
    PROVE  /\ JsonVerdict(r.object) = told /\ told # "pass" => Inspect(r) = told
           /\ JsonVerdict(r.object) = "pass" /\ http < 400 => Inspect(r) = "json"
           /\ JsonVerdict(r.object) = "pass" /\ http >= 400 => Inspect(r) = "GenesisUnknownEnvelope"
BY DEF Inspect, InJson

LEMMA Models ==
    ASSUME NEW o
    PROVE  /\ o.keys = {"Status object"} => Model(o) = "GenesisEnvelope"
           /\ o.keys = {"Status string"} => Model(o) = "LoginCheckReply"
           /\ o.keys = {"Code", "Content"} => Model(o) = "GenesisStatus"
           /\ o.keys = {"User-Agent"} => Model(o) = "HelloWorldReply"
           /\ o.keys = {"Code"} => Model(o) = "none"
BY DEF Model

\* A status block, flat or nested.
LEMMA BlockVerdict ==
    ASSUME NEW r, Keyed(r, {"Status object"}) \/ Keyed(r, {"Code", "Content"}), NEW s, Says(r, s)
    PROVE  JsonVerdict(r.object) = StatusBlock(s)
<1>1. Model(r.object) = "GenesisEnvelope" \/ Model(r.object) = "GenesisStatus"
  BY Models DEF Keyed
<1> QED
  BY <1>1 DEF JsonVerdict, Keyed, Says

LEMMA FieldsOfABlock ==
    ASSUME NEW http, NEW keys, NEW s, NEW r, r = Block(http, keys, s)
    PROVE  InJson(r, http) /\ Keyed(r, keys) /\ Says(r, s)
BY DEF Block, Reply, Object, InJson, Keyed, Says

\* An error comes through in either shape.
LEMMA ErrorInBothShapes ==
    ASSUME NEW s, StatusBlock(s) \in ReplyErrors, NEW r \in InBothShapes(s), NEW operation
    PROVE  Outcome(operation, r) = StatusBlock(s)
<1>1. PICK http \in Int : r = Block(http, {"Status object"}, s) \/ r = Block(http, {"Code", "Content"}, s)
  <2>1. \/ r = Block(200, {"Status object"}, s)
        \/ r = Block(401, {"Code", "Content"}, s)
        \/ r = Block(404, {"Code", "Content"}, s)
    BY DEF InBothShapes
  <2>2. PICK nested, flat : nested = {"Status object"} /\ flat = {"Code", "Content"}
    OBVIOUS
  <2>3. r = Block(200, nested, s) \/ r = Block(401, flat, s) \/ r = Block(404, flat, s)
    BY <2>1, <2>2, Zenon
  <2>4. \E http \in Int : r = Block(http, nested, s) \/ r = Block(http, flat, s)
    BY ONLY <2>3
  <2> QED
    BY <2>2, <2>4, Zenon
<1>2. StatusBlock(s) # "pass"
  BY DEF ReplyErrors
<1>3. InJson(r, http) /\ Says(r, s) /\ (Keyed(r, {"Status object"}) \/ Keyed(r, {"Code", "Content"}))
  BY <1>1, FieldsOfABlock
<1>4. JsonVerdict(r.object) = StatusBlock(s)
  BY <1>3, BlockVerdict
<1>5. Inspect(r) = StatusBlock(s)
  BY <1>2, <1>3, <1>4, InspectObject
<1> QED
  BY <1>5 DEF Outcome

LEMMA FieldsOfAStatus ==
    ASSUME NEW code, NEW text, NEW type
    PROVE  LET s == Status(code, text, type) IN s.code = code /\ s.text = text /\ s.type = type
BY DEF Status

\* What each code and text is taken for.
LEMMA Verdicts ==
    /\ StatusBlock(Status(2, {"system_error"}, "error")) = "GenesisBackendError"
    /\ StatusBlock(Status(2, {"credentials"}, "error")) = "GenesisAuthError"
    /\ StatusBlock(Status(NotAuthorized, {"credentials"}, "error")) = "GenesisAuthError"
    /\ StatusBlock(Status(TableNotFound, {}, "error")) = "GenesisUnknownTable"
    /\ StatusBlock(Status(NoObjects, {}, "information")) = "GenesisEmptySelection"
    /\ StatusBlock(Status(ResultTooLarge, {"too_large"}, "error")) = "GenesisResultTooLarge"
    /\ StatusBlock(Status(1, {"too_large"}, "information")) = "GenesisResultTooLarge"
    /\ StatusBlock(Status(99, {"job"}, "information")) = "GenesisJobAccepted"
    /\ StatusBlock(Status(4711, {}, "information")) = "GenesisUnknownEnvelope"
    /\ StatusBlock(Status(OK, {}, "error")) = "GenesisUnknownEnvelope"
    /\ StatusBlock(Status(OK, {}, "information")) = "pass"
    /\ \A text \in {{}, {"too_large"}} : /\ StatusBlock(Status(OK, text, "information")) = "pass"
                                         /\ StatusBlock(Status(ParameterAdjusted, text, "warning")) = "pass"
BY FieldsOfAStatus DEF StatusBlock, OK, NotAuthorized, ParameterAdjusted, TableNotFound, ResultTooLarge, NoObjects

\* A reply to a logincheck, in any words.
LEMMA InspectLogin ==
    ASSUME NEW text, NEW username, NEW r, r = LoginReply(text, username)
    PROVE  /\ LoginCheck(text, username) # "pass" => Inspect(r) = LoginCheck(text, username)
           /\ LoginCheck(text, username) = "pass" => Inspect(r) = "json"
           /\ Model(r.object) = "LoginCheckReply"
<1>1. InJson(r, 200) /\ Keyed(r, {"Status string"})
  BY DEF LoginReply, Reply, Object, InJson, Keyed
<1>1a. r.object.status.text = text /\ r.object.username = username
  BY DEF LoginReply, Reply, Object, Status
<1>2. Model(r.object) = "LoginCheckReply"
  BY <1>1, Models DEF Keyed
<1>3. JsonVerdict(r.object) = LoginCheck(text, username)
  BY <1>1, <1>1a, <1>2 DEF JsonVerdict, Keyed
<1> QED
  <2>1. 200 \in Int /\ 200 < 400
    OBVIOUS
  <2> QED
    BY <1>1, <1>2, <1>3, <2>1, InspectObject, Zenon

LEMMA LoginVerdicts ==
    /\ LoginCheck({"logged_in"}, "named") = "pass"
    /\ \A username \in {"guest", "named"} : LoginCheck({"system_error"}, username) = "GenesisBackendError"
    /\ \A username \in {"guest", "absent"} : LoginCheck({"logged_in"}, username) = "GenesisAuthError"
    /\ LoginCheck({"credentials"}, "named") = "GenesisAuthError"
BY DEF LoginCheck

LEMMA LoginOutcome ==
    ASSUME NEW text, NEW username, LoginCheck(text, username) \in ReplyErrors, NEW operation
    PROVE  Outcome(operation, LoginReply(text, username)) = LoginCheck(text, username)
<1>1. LoginCheck(text, username) # "pass"
  BY DEF ReplyErrors
<1> QED
  BY <1>1, InspectLogin DEF Outcome

\* What a host answers to one operation, and is done by it, passes; as an answer to another
\* it is unknown.
LEMMA DoneZip ==
    ASSUME NEW r \in Done("tablefile") PROVE Inspect(r) = "zip"
<1>1. r.http = 200 /\ r.body = "zip"
  BY DEF Done, Reply
<1> QED
  BY <1>1 DEF Inspect

LEMMA DoneJson ==
    ASSUME NEW operation \in Operations \ {"tablefile"}, NEW r \in Done(operation)
    PROVE  Inspect(r) = "json" /\ Model(r.object) = Expects(operation)
<1>1. CASE operation = "logincheck"
  <2>1. r = LoginReply({"logged_in"}, "named")
    BY <1>1 DEF Done
  <2>2. Inspect(r) = "json" /\ Model(r.object) = "LoginCheckReply"
    BY <2>1, InspectLogin, LoginVerdicts
  <2> QED
    BY <1>1, <2>2 DEF Expects
<1>2. CASE operation = "whoami"
  <2>1. r = Block(200, {"User-Agent"}, NoObject.status)
    BY <1>2 DEF Done
  <2>2. InJson(r, 200) /\ Keyed(r, {"User-Agent"})
    BY <2>1, FieldsOfABlock
  <2>3. Model(r.object) = "HelloWorldReply"
    BY <2>2, Models DEF Keyed
  <2>4. JsonVerdict(r.object) = "pass"
    BY <2>2, <2>3 DEF JsonVerdict, Keyed
  <2>5. Inspect(r) = "json"
    BY <2>2, <2>4, InspectObject
  <2> QED
    BY <1>2, <2>3, <2>5 DEF Expects
<1>3. CASE operation \in {"qualitysigns", "metadata"}
  <2>0. Done(operation) = {Block(200, {"Status object"}, s) : s \in
                             {Status(OK, text, "information") : text \in {{}, {"too_large"}}} \cup
                             {Status(ParameterAdjusted, text, "warning") : text \in {{}, {"too_large"}}}}
    BY <1>3 DEF Done
  <2>1. PICK s : r = Block(200, {"Status object"}, s) /\ StatusBlock(s) = "pass"
    <3>1. PICK s : /\ r = Block(200, {"Status object"}, s)
                   /\ s \in {Status(OK, text, "information") : text \in {{}, {"too_large"}}} \cup
                            {Status(ParameterAdjusted, text, "warning") : text \in {{}, {"too_large"}}}
      BY <2>0
    <3>2. PICK text \in {{}, {"too_large"}} : s = Status(OK, text, "information") \/ s = Status(ParameterAdjusted, text, "warning")
      BY <3>1
    <3>3. StatusBlock(Status(OK, text, "information")) = "pass" /\ StatusBlock(Status(ParameterAdjusted, text, "warning")) = "pass"
      BY Verdicts
    <3>4. StatusBlock(s) = "pass"
      BY <3>2, <3>3, Zenon
    <3> QED
      BY <3>1, <3>4, Zenon
  <2>2. InJson(r, 200) /\ Keyed(r, {"Status object"}) /\ Says(r, s)
    <3>1. PICK keys : keys = {"Status object"}
      OBVIOUS
    <3>2. r = Block(200, keys, s)
      BY <2>1, <3>1, Zenon
    <3>3. InJson(r, 200) /\ Keyed(r, keys) /\ Says(r, s)
      BY ONLY <3>2, FieldsOfABlock
    <3> QED
      BY <3>1, <3>3, Zenon
  <2>3. JsonVerdict(r.object) = "pass"
    BY <2>1, <2>2, BlockVerdict
  <2>4. Inspect(r) = "json"
    <3>1. 200 \in Int /\ 200 < 400
      OBVIOUS
    <3> QED
      BY <2>2, <2>3, <3>1, InspectObject, Zenon
  <2>5. Model(r.object) = "GenesisEnvelope"
    BY <2>2, Models DEF Keyed
  <2> QED
    BY <1>3, <2>4, <2>5 DEF Expects
<1> QED
  BY <1>1, <1>2, <1>3 DEF Operations

LEMMA DoneIsReturned ==
    ASSUME NEW operation \in Operations, NEW r \in Done(operation)
    PROVE  Outcome(operation, r) = "returned"
<1>1. CASE operation = "tablefile"
  BY <1>1, DoneZip DEF Outcome, ReplyErrors
<1>2. CASE operation # "tablefile"
  BY <1>2, DoneJson DEF Outcome, ReplyErrors
<1> QED
  BY <1>1, <1>2

LEMMA OtherDoneIsUnknown ==
    ASSUME NEW operation \in Operations, NEW other \in Operations, NEW r \in Done(other) \ Done(operation)
    PROVE  Outcome(operation, r) = "GenesisUnknownEnvelope"
<1>1. CASE other = "tablefile"
  <2>1. operation # "tablefile" /\ Inspect(r) = "zip"
    BY <1>1, DoneZip
  <2> QED
    BY <2>1 DEF Outcome, ReplyErrors
<1>2. CASE other # "tablefile"
  <2>1. Inspect(r) = "json" /\ Model(r.object) = Expects(other)
    BY <1>2, DoneJson
  <2>2. CASE operation = "tablefile"
    BY <2>1, <2>2 DEF Outcome, ReplyErrors
  <2>3. CASE operation # "tablefile"
    <3>1. ~(operation \in {"qualitysigns", "metadata"} /\ other \in {"qualitysigns", "metadata"})
      BY DEF Done
    <3>2. operation # other
      OBVIOUS
    <3>3. Expects(operation) # Expects(other)
      BY <1>2, <2>3, <3>1, <3>2 DEF Expects, Operations
    <3> QED
      BY <2>1, <2>3, <3>3 DEF Outcome, ReplyErrors
  <2> QED
    BY <2>2, <2>3
<1> QED
  BY <1>1, <1>2

LEMMA OutageIsBackend ==
    ASSUME NEW operation, NEW r \in Outage(operation) PROVE Outcome(operation, r) = "GenesisBackendError"
<1>1. CASE operation = "logincheck"
  <2>1. PICK username \in {"guest", "named"} : r = LoginReply({"system_error"}, username)
    BY <1>1 DEF Outage
  <2> QED
    BY <2>1, LoginVerdicts, LoginOutcome DEF ReplyErrors
<1>2. CASE operation # "logincheck"
  <2>1. r \in InBothShapes(Status(2, {"system_error"}, "error"))
    BY <1>2 DEF Outage
  <2> QED
    BY <2>1, Verdicts, ErrorInBothShapes DEF ReplyErrors
<1> QED
  BY <1>1, <1>2

LEMMA RejectedIsTold ==
    ASSUME NEW operation, NEW r \in Rejected(operation)
    PROVE  Outcome(operation, r) \in {"GenesisAuthError", "GenesisBackendError"}
<1>1. CASE r \in Outage(operation)
  BY <1>1, OutageIsBackend
<1>2. CASE r \notin Outage(operation) /\ operation = "logincheck"
  <2>1. (\E username \in {"guest", "absent"} : r = LoginReply({"logged_in"}, username))
        \/ r = LoginReply({"credentials"}, "named")
    BY <1>2 DEF Rejected
  <2> QED
    BY <2>1, LoginVerdicts, LoginOutcome DEF ReplyErrors
<1>3. CASE r \notin Outage(operation) /\ operation # "logincheck"
  <2>1. r \in InBothShapes(Status(2, {"credentials"}, "error"))
        \/ r \in InBothShapes(Status(NotAuthorized, {"credentials"}, "error"))
    BY <1>3 DEF Rejected
  <2> QED
    BY <2>1, Verdicts, ErrorInBothShapes DEF ReplyErrors
<1> QED
  BY <1>1, <1>2, <1>3

LEMMA NewIsUnknown ==
    ASSUME NEW operation \in Operations, NEW r \in SomethingNew(operation)
    PROVE  Outcome(operation, r) = "GenesisUnknownEnvelope"
<1>1. \/ r \in UNION {InBothShapes(s) : s \in NewStatuses}
      \/ r \in NewBodies \/ r \in NewShapes \/ r \in OfOthers(operation)
  BY DEF SomethingNew
<1>2. CASE r \in UNION {InBothShapes(s) : s \in NewStatuses}
  <2>1. r \in InBothShapes(Status(4711, {}, "information")) \/ r \in InBothShapes(Status(OK, {}, "error"))
    BY <1>2 DEF NewStatuses
  <2> QED
    BY <2>1, Verdicts, ErrorInBothShapes DEF ReplyErrors
<1>3. NoObject.keys = {} /\ NoObject.fits = FALSE
  BY DEF NoObject, Object
<1>4. JsonVerdict(NoObject) = "GenesisUnknownEnvelope"
  BY <1>3 DEF JsonVerdict
<1>5. CASE r \in NewBodies
  <2>1. PICK body \in {"text", "list", "object"} : r = Reply(200, FALSE, body, NoObject)
    BY <1>5 DEF NewBodies
  <2>2. r.http = 200 /\ r.html = FALSE /\ r.body = body /\ r.object = NoObject
    BY <2>1 DEF Reply
  <2>3. body # "zip" /\ body # "markup"
    OBVIOUS
  <2>4. Inspect(r) = "GenesisUnknownEnvelope"
    BY <1>4, <2>2, <2>3 DEF Inspect
  <2> QED
    BY <2>4 DEF Outcome, ReplyErrors
<1>6. CASE r \in NewShapes
  <2>1. CASE r = Block(200, {"Code"}, Status(OK, {}, "information"))
    <3>1. InJson(r, 200) /\ Keyed(r, {"Code"})
      BY <2>1, FieldsOfABlock
    <3>2. JsonVerdict(r.object) = "GenesisUnknownEnvelope"
      BY <3>1, Models DEF JsonVerdict, Keyed
    <3>3. Inspect(r) = "GenesisUnknownEnvelope"
      BY <3>1, <3>2, InspectObject
    <3> QED
      BY <3>3 DEF Outcome, ReplyErrors
  <2>2. CASE r = Block(418, {"User-Agent"}, NoObject.status)
    <3>1. InJson(r, 418) /\ Keyed(r, {"User-Agent"})
      BY <2>2, FieldsOfABlock
    <3>2. JsonVerdict(r.object) = "pass"
      BY <3>1, Models DEF JsonVerdict, Keyed
    <3>3. Inspect(r) = "GenesisUnknownEnvelope"
      BY <3>1, <3>2, InspectObject
    <3> QED
      BY <3>3 DEF Outcome, ReplyErrors
  <2>3. CASE r = Reply(403, FALSE, "zip", NoObject)
    <3>1. r.http = 403 /\ r.body = "zip"
      BY <2>3 DEF Reply
    <3>2. Inspect(r) = "GenesisUnknownEnvelope"
      BY <3>1 DEF Inspect
    <3> QED
      BY <3>2 DEF Outcome, ReplyErrors
  <2>4. CASE r = Reply(200, FALSE, "object", Unfit)
    <3>1. Unfit.fits = FALSE
      BY DEF Unfit, Object
    <3>2. InJson(r, 200) /\ r.object = Unfit
      BY <2>4 DEF Reply, InJson
    <3>3. JsonVerdict(r.object) = "GenesisUnknownEnvelope"
      BY <3>1, <3>2 DEF JsonVerdict
    <3>4. Inspect(r) = "GenesisUnknownEnvelope"
      BY <3>2, <3>3, InspectObject
    <3> QED
      BY <3>4 DEF Outcome, ReplyErrors
  <2> QED
    BY <1>6, <2>1, <2>2, <2>3, <2>4 DEF NewShapes
<1>7. CASE r \in OfOthers(operation)
  <2>1. PICK other \in Operations : r \in Done(other) \ Done(operation)
    BY <1>7 DEF OfOthers
  <2> QED
    BY <2>1, OtherDoneIsUnknown
<1> QED
  BY <1>1, <1>2, <1>5, <1>6, <1>7

LEMMA EveryReplyFits ==
    ASSUME NEW operation \in Operations, NEW finding \in Findings \ {"moved"},
           NEW r \in Replies(operation, finding)
    PROVE  Fits(finding, Outcome(operation, r))
<1>1. CASE finding = "done"
  BY <1>1, DoneIsReturned DEF Replies, Fits
<1>2. CASE finding = "outage"
  BY <1>2, OutageIsBackend DEF Replies, Fits
<1>3. CASE finding = "rejected"
  BY <1>3, RejectedIsTold DEF Replies, Fits
<1>4. CASE finding = "maintenance"
  <2>1. r = Reply(200, TRUE, "text", NoObject) \/ r = Reply(404, FALSE, "markup", NoObject)
    BY <1>4 DEF Replies
  <2>1a. (r.html = TRUE /\ r.body = "text") \/ (r.html = FALSE /\ r.body = "markup")
    BY <2>1 DEF Reply
  <2>2. Inspect(r) = "GenesisMaintenance"
    BY <2>1a DEF Inspect
  <2> QED
    BY <1>4, <2>2 DEF Outcome, ReplyErrors, Fits
<1>5. CASE finding = "unknown_table"
  BY <1>5, Verdicts, ErrorInBothShapes DEF Replies, Fits, ReplyErrors
<1>6. CASE finding = "empty"
  BY <1>6, Verdicts, ErrorInBothShapes DEF Replies, Fits, ReplyErrors
<1>7. CASE finding = "too_large"
  <2>1. r \in InBothShapes(Status(ResultTooLarge, {"too_large"}, "error"))
        \/ r \in InBothShapes(Status(1, {"too_large"}, "information"))
    BY <1>7 DEF Replies
  <2> QED
    BY <1>7, <2>1, Verdicts, ErrorInBothShapes DEF Fits, ReplyErrors
<1>8. CASE finding = "job"
  BY <1>8, Verdicts, ErrorInBothShapes DEF Replies, Fits, ReplyErrors
<1>9. CASE finding = "something_new"
  BY <1>9, NewIsUnknown DEF Replies, Fits
<1> QED
  BY <1>1, <1>2, <1>3, <1>4, <1>5, <1>6, <1>7, <1>8, <1>9 DEF Findings

\* While a request is out, nothing is known of its reply.
ToldOK == (at = "sent" => meant = None) /\ Diagnosed

LEMMA ToldInit == Init => ToldOK
BY DEF Init, ToldOK, Diagnosed

LEMMA ToldStep == Inv /\ ToldOK /\ [Next]_vars => ToldOK'
<1> SUFFICES ASSUME Inv, ToldOK, [Next]_vars PROVE ToldOK'
  OBVIOUS
<1>1. ASSUME NEW operation \in Operations, Call(operation) PROVE ToldOK'
  <2>1. meant' = None
    BY <1>1 DEF Call
  <2> QED
    BY <2>1 DEF ToldOK, Diagnosed
<1>2. CASE Redirected
  BY <1>2 DEF Redirected, ToldOK, Diagnosed
<1>3. CASE Answered
  <2>1. at' = "idle" /\ request.operation \in Operations
    BY <1>3 DEF Answered, Inv, TypeOK
  <2>2. PICK finding \in Meanings(request) :
           meant' = finding /\ \E r \in Replies(request.operation, finding) : outcome' = Outcome(request.operation, r)
    BY <1>3 DEF Answered
  <2>3. finding \in Findings \ {"moved"}
    BY DEF Meanings, Findings
  <2>4. Fits(finding, outcome')
    BY <2>1, <2>2, <2>3, EveryReplyFits
  <2> QED
    BY <2>1, <2>2, <2>4 DEF ToldOK, Diagnosed, Fits
<1>4. CASE NoAnswer
  BY <1>4 DEF NoAnswer, ToldOK, Diagnosed
<1>5. CASE SetEnviron
  BY <1>5 DEF SetEnviron, ToldOK, Diagnosed
<1>6. CASE UNCHANGED vars
  BY <1>6 DEF vars, ToldOK, Diagnosed
<1> QED
  BY <1>1, <1>2, <1>3, <1>4, <1>5, <1>6 DEF Next

\* On any hosts, for every reply a host may give: what the caller is told is what the host
\* meant by it.
THEOREM ToldWhatWasMeant == Spec => []Diagnosed
<1>1. ToldOK => Diagnosed
  BY DEF ToldOK
<1> QED
  BY <1>1, ToldInit, ToldStep, Invariance, PTL DEF Spec
=============================================================================
