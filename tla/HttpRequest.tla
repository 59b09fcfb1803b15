---------------------------- MODULE HttpRequest -----------------------------
(***************************************************************************)
(* One HTTP request on the device: the incremental parser of               *)
(* http_protocol.cpp, fed byte by byte, and planResponse() of              *)
(* api_handler.cpp, which turns the parsed request into an answer and at   *)
(* most one command.                                                       *)
(*                                                                         *)
(* A byte is a character, a CR or a LF; which line the characters spelt is *)
(* chosen when its LF arrives.  A line is a record: the method, path and   *)
(* query of a request line, or the name and value of a header.  A word     *)
(* stands for a text, and "none" for the empty one; numbers are sequences  *)
(* of digits, since their width matters.                                   *)
(***************************************************************************)
EXTENDS Integers, Sequences

CONSTANTS
    MaxHeaderBytes,    \* HTTP_MAX_HEADER_BYTES
    MaxLineBytes,      \* HTTP_MAX_LINE_BYTES, also HTTP_MAX_REQUEST_LINE
    UintMax,           \* the largest uint32_t
    UintDigits,        \* how many digits it has
    MaxTiming,         \* timing header |-> the largest value it may have
    DefaultTiming,     \* timing header |-> StartTimings()
    RequireRequestId,  \* REQUIRE_REQUEST_ID
    MaintenanceApi,    \* MAINTENANCE_API_ENABLED
    SecretConfigured,  \* the build has a secret
    RequestLines,      \* the request lines callers send
    HeaderLines        \* the header lines callers send

VARIABLES
    status,            \* status_ : INCOMPLETE, COMPLETE or FAILED
    error,             \* errorStatus_, errorCode_
    inHeaders,         \* phase_ is past the request line
    lineLen,           \* lineLen_
    total,             \* totalBytes_
    req,               \* req_
    answer,            \* the response, and the command it ran
    lines              \* history: the lines received so far

requestVars == <<status, error, inHeaders, lineLen, total, req, answer, lines>>

TimingHeaders == {"x-choke-ms", "x-crank-ms", "x-unchoke-ms"}

ASSUME RequestAssumption ==
    /\ {MaxHeaderBytes, MaxLineBytes, UintMax, UintDigits} \subseteq Nat \ {0}
    /\ MaxTiming \in [TimingHeaders -> 0..UintMax]
    /\ DefaultTiming \in [TimingHeaders -> 0..UintMax]
    /\ {RequireRequestId, MaintenanceApi, SecretConfigured} \subseteq BOOLEAN
    /\ RequestLines \subseteq [form : {"request", "no_path", "no_request_line"},
                               method : STRING, path : STRING,
                               sinceGiven : BOOLEAN, since : Seq(Nat)]
    /\ HeaderLines \subseteq [name : STRING, text : STRING, digits : Seq(Nat)]

NoError == [status |-> 0, code |-> "none"]

NoRun == [command |-> "NONE", id |-> "none", timings |-> DefaultTiming, override |-> FALSE]

Unanswered == [status |-> 0, code |-> "none", run |-> NoRun]

-----------------------------------------------------------------------------
(* Validation.                                                             *)

Digit == 0..9

(* The check against overflow comes before the multiplication.             *)
Accumulated(acc, d) ==
    IF acc.ok /\ d \in Digit /\ acc.value <= (UintMax - d) \div 10
    THEN [ok |-> TRUE, value |-> acc.value * 10 + d]
    ELSE [ok |-> FALSE, value |-> 0]

ParseUint32(s) ==
    LET acc[i \in 0..Len(s)] ==
          IF i = 0 THEN [ok |-> TRUE, value |-> 0] ELSE Accumulated(acc[i - 1], s[i])
    IN  IF s = << >> \/ Len(s) > UintDigits THEN [ok |-> FALSE, value |-> 0]
        ELSE acc[Len(s)]

-----------------------------------------------------------------------------
(* The parser.                                                             *)

EmptyRequest ==
    [method |-> "UNKNOWN", path |-> "none", sincePresent |-> FALSE, sinceMalformed |-> FALSE,
     secretPresent |-> FALSE, secret |-> "none",
     timingPresent |-> {}, timingMalformed |-> FALSE,
     timing |-> [h \in TimingHeaders |-> 0],
     override |-> FALSE, overrideMalformed |-> FALSE,
     idPresent |-> FALSE, idValid |-> FALSE, id |-> "none"]

(* fail(): the verdict is latched.                                         *)
Fail(code, why) == status' = "FAILED" /\ error' = [status |-> code, code |-> why]

Continue == UNCHANGED <<status, error>>

(* Every byte counts against the limit of the header section.              *)
Receive == status = "INCOMPLETE" /\ total < MaxHeaderBytes /\ total' = total + 1

TooManyBytes ==
    /\ status = "INCOMPLETE" /\ total = MaxHeaderBytes
    /\ total' = total + 1
    /\ Fail(413, "headers_too_large")
    /\ UNCHANGED <<inHeaders, lineLen, req, answer, lines>>

CarriageReturn ==
    /\ Receive /\ Continue
    /\ UNCHANGED <<inHeaders, lineLen, req, answer, lines>>

(* Mutant: one byte more than the buffer holds.                            *)
CharacterPastEnd ==
    /\ Receive
    /\ IF lineLen <= MaxLineBytes
       THEN lineLen' = lineLen + 1 /\ Continue
       ELSE /\ Fail(413, IF inHeaders THEN "header_line_too_long" ELSE "request_line_too_long")
            /\ UNCHANGED lineLen
    /\ UNCHANGED <<inHeaders, req, answer, lines>>

Character ==
    /\ Receive
    /\ IF lineLen < MaxLineBytes
       THEN lineLen' = lineLen + 1 /\ Continue
       ELSE /\ Fail(413, IF inHeaders THEN "header_line_too_long" ELSE "request_line_too_long")
            /\ UNCHANGED lineLen
    /\ UNCHANGED <<inHeaders, req, answer, lines>>

(* handleRequestLine().  A path longer than any route is cut and stays     *)
(* unknown; only since= is looked for in the query.                        *)
RequestLine(l) ==
    /\ Receive /\ ~inHeaders
    /\ lineLen = 0 => l.form = "no_request_line"
    /\ CASE l.form = "no_request_line" -> Fail(400, "malformed_request_line") /\ UNCHANGED inHeaders
         [] l.form = "no_path" -> Fail(400, "malformed_request_target") /\ UNCHANGED inHeaders
         [] OTHER -> Continue /\ inHeaders' = TRUE
    /\ req' = [req EXCEPT !.method = l.method, !.path = l.path,
                          !.sincePresent = l.sinceGiven,
                          !.sinceMalformed = l.sinceGiven /\ ~ParseUint32(l.since).ok]
    /\ lineLen' = 0 /\ lines' = Append(lines, l)
    /\ UNCHANGED answer

(* The header section ends with an empty line; a body is never read.       *)
BlankLine ==
    /\ Receive /\ inHeaders /\ lineLen = 0
    /\ status' = "COMPLETE"
    /\ UNCHANGED <<error, inHeaders, lineLen, req, answer, lines>>

(* The last secret counts; one too long for its buffer is stored empty.    *)
WithSecret(r, h) ==
    [r EXCEPT !.secretPresent = TRUE, !.secret = IF h.text = "too_long" THEN "none" ELSE h.text]

(* The last value counts, and one that is malformed is never forgotten.    *)
WithTiming(r, h) ==
    LET parsed == ParseUint32(h.digits)
        seen == [r EXCEPT !.timingPresent = @ \cup {h.name}]
    IN  IF parsed.ok THEN [seen EXCEPT !.timing[h.name] = parsed.value]
        ELSE [seen EXCEPT !.timingMalformed = TRUE]

(* Only the exact phrase counts, and anything else is never forgotten.     *)
WithOverride(r, h) ==
    IF h.text = "phrase" THEN [r EXCEPT !.override = TRUE]
    ELSE [r EXCEPT !.overrideMalformed = TRUE]

(* The last request id counts, valid or not.                               *)
WithRequestId(r, h) ==
    LET valid == h.text \notin {"none", "not_an_id"}
    IN  [r EXCEPT !.idPresent = TRUE, !.idValid = valid, !.id = IF valid THEN h.text ELSE "none"]

(* handleHeaderLine().                                                     *)
HeaderLine(h) ==
    /\ Receive /\ inHeaders /\ lineLen > 0
    /\ IF h.name = "none" THEN Fail(400, "malformed_header") ELSE Continue
    /\ req' = CASE h.name = "x-pump-secret" -> WithSecret(req, h)
                [] h.name \in TimingHeaders -> WithTiming(req, h)
                [] h.name = "x-danger-override" -> WithOverride(req, h)
                [] h.name = "x-request-id" -> WithRequestId(req, h)
                [] OTHER -> req
    /\ lineLen' = 0 /\ lines' = Append(lines, h)
    /\ UNCHANGED <<inHeaders, answer>>

-----------------------------------------------------------------------------
(* planResponse().                                                         *)

AuthOk(r) == SecretConfigured /\ r.secretPresent /\ r.secret = "right"

(* The table of resolveRoute(); a build without the maintenance API does   *)
(* not know its paths.                                                     *)
RouteTable ==
    {<<"/v1/status", "GET", "STATUS">>, <<"/v1/log", "GET", "LOG">>,
     <<"/v1/start", "POST", "START">>, <<"/v1/stop", "POST", "STOP">>,
     <<"/v1/start-failed", "POST", "START_FAILED">>,
     <<"/v1/reset-idle", "POST", "RESET_IDLE">>}
    \cup IF MaintenanceApi THEN {<<"/v1/maintenance/starter/on", "POST", "MAINT_STARTER_ON">>}
         ELSE {}

ResolveRoute(r) ==
    IF \E e \in RouteTable : e[1] = r.path /\ e[2] = r.method
    THEN (CHOOSE e \in RouteTable : e[1] = r.path /\ e[2] = r.method)[3]
    ELSE IF \E e \in RouteTable : e[1] = r.path THEN "405" ELSE "404"

OutOfRange(r, h) == h \in r.timingPresent /\ r.timing[h] > MaxTiming[h]

(* The early returns in their order: a condition, a status, a code.        *)
RefusalsRouteFirst(r, route) ==
    << <<route = "404", 404, "not_found">>,
       <<route = "405", 405, "method_not_allowed">>,
       <<~AuthOk(r), 401, "unauthorized">> >>

GeneralRefusals(r, route) ==
    << <<~AuthOk(r), 401, "unauthorized">>,
       <<route = "404", 404, "not_found">>,
       <<route = "405", 405, "method_not_allowed">> >>

LogRefusals(r) == << <<r.sinceMalformed, 400, "invalid_since">> >>

CommandRefusals(r, route) ==
    << <<r.idPresent /\ ~r.idValid, 400, "invalid_request_id">>,
       <<RequireRequestId /\ ~r.idPresent, 400, "missing_request_id">>,
       <<r.overrideMalformed, 400, "invalid_danger_override">>,
       <<r.timingPresent # {} /\ route # "START", 400, "timing_override_not_applicable">>,
       <<r.timingPresent # {} /\ r.timingMalformed, 400, "invalid_timing_override">>,
       <<OutOfRange(r, "x-choke-ms"), 400, "choke_ms_out_of_range">>,
       <<OutOfRange(r, "x-crank-ms"), 400, "crank_ms_out_of_range">>,
       <<OutOfRange(r, "x-unchoke-ms"), 400, "unchoke_ms_out_of_range">> >>

Refusals(r, route) ==
    GeneralRefusals(r, route)
      \o (CASE route = "LOG" -> LogRefusals(r)
            [] route = "STATUS" -> << >>
            [] OTHER -> CommandRefusals(r, route))

RunOf(r, route) ==
    [command |-> route, id |-> r.id, override |-> r.override,
     timings |-> [h \in TimingHeaders |-> IF h \in r.timingPresent THEN r.timing[h]
                                          ELSE DefaultTiming[h]]]

(* The answer to a complete request; `accepts' is the controller's word.   *)
Plan(r, accepts) ==
    LET route == ResolveRoute(r)
        rules == Refusals(r, route)
        refused == {i \in DOMAIN rules : rules[i][1]}
        first == CHOOSE i \in refused : \A j \in refused : i <= j
    IN  IF refused # {}
        THEN [status |-> rules[first][2], code |-> rules[first][3], run |-> NoRun]
        ELSE IF route \in {"STATUS", "LOG"} THEN [status |-> 200, code |-> "none", run |-> NoRun]
        ELSE [status |-> IF accepts THEN 202 ELSE 409,
              code |-> IF accepts THEN "none" ELSE "invalid_state_for_command",
              run |-> RunOf(r, route)]

Respond(accepts) ==
    /\ answer = Unanswered /\ status # "INCOMPLETE"
    /\ answer' = IF status = "FAILED"
                 THEN [status |-> error.status, code |-> error.code, run |-> NoRun]
                 ELSE Plan(req, accepts)
    /\ UNCHANGED <<status, error, inHeaders, lineLen, total, req, lines>>

(* Mutant: the flags of the last request are left standing.                *)
ResetKeepingRequest ==
    /\ status' = "INCOMPLETE" /\ error' = NoError /\ inHeaders' = FALSE
    /\ lineLen' = 0 /\ total' = 0 /\ answer' = Unanswered /\ lines' = << >>
    /\ UNCHANGED req

(* reset(), for the next client: after an answer, or after a client that   *)
(* went away or ran out of time.                                           *)
Reset ==
    /\ status' = "INCOMPLETE" /\ error' = NoError /\ inHeaders' = FALSE
    /\ lineLen' = 0 /\ total' = 0 /\ answer' = Unanswered /\ lines' = << >>
    /\ req' = EmptyRequest

RequestInit ==
    /\ status = "INCOMPLETE" /\ error = NoError /\ inHeaders = FALSE
    /\ lineLen = 0 /\ total = 0 /\ req = EmptyRequest
    /\ answer = Unanswered /\ lines = << >>

RequestNext ==
    \/ TooManyBytes
    \/ CarriageReturn
    \/ Character
    \/ \E l \in RequestLines : RequestLine(l)
    \/ BlankLine
    \/ \E h \in HeaderLines : HeaderLine(h)
    \/ \E accepts \in BOOLEAN : Respond(accepts)
    \/ Reset

RequestSpec == RequestInit /\ [][RequestNext]_requestVars

-----------------------------------------------------------------------------
(* Properties.                                                             *)

(* No byte is written past the line buffer or read past the limit of the   *)
(* section, and a verdict comes with its error.                            *)
RequestTypeOK ==
    /\ lineLen \in 0..MaxLineBytes /\ total \in 0..(MaxHeaderBytes + 1)
    /\ status \in {"INCOMPLETE", "COMPLETE", "FAILED"}
    /\ status = "FAILED" <=> error # NoError
    /\ req.timing \in [TimingHeaders -> 0..UintMax]
    /\ answer # Unanswered => status # "INCOMPLETE"

(* What the lines of a request say, read as a whole.                       *)
Sent(name) == {i \in 2..Len(lines) : lines[i].name = name}

LastSent(name) == lines[CHOOSE i \in Sent(name) : \A j \in Sent(name) : j <= i]

(* The number that digits stand for, as wide as it takes.                  *)
NumberOf(s) ==
    LET value[i \in 0..Len(s)] == IF i = 0 THEN 0 ELSE value[i - 1] * 10 + s[i]
    IN  value[Len(s)]

IsNumber(s) ==
    /\ s # << >> /\ Len(s) <= UintDigits /\ \A i \in DOMAIN s : s[i] \in Digit
    /\ NumberOf(s) <= UintMax

ValueOf(h) == NumberOf(LastSent(h).digits)

Authentic ==
    SecretConfigured /\ Sent("x-pump-secret") # {} /\ LastSent("x-pump-secret").text = "right"

AsksFor(command) ==
    \E e \in RouteTable :
      e[1] = lines[1].path /\ e[2] = lines[1].method /\ e[3] = command

Unambiguous(command) ==
    /\ \A i \in Sent("x-danger-override") : lines[i].text = "phrase"
    /\ \A h \in TimingHeaders : \A i \in Sent(h) : command = "START" /\ IsNumber(lines[i].digits)
    /\ \A h \in TimingHeaders : Sent(h) # {} => ValueOf(h) <= MaxTiming[h]
    /\ Sent("x-request-id") # {} => LastSent("x-request-id").text \notin {"none", "not_an_id"}
    /\ Sent("x-request-id") = {} => ~RequireRequestId

(* A command is run if and only if the whole request asked for it,         *)
(* authentically and without a malformed header anywhere, and it is run    *)
(* with exactly the timings, override and id that were sent: nothing of an *)
(* earlier request, nothing clamped, nothing misread, whatever order and   *)
(* repetition of the headers.                                              *)
ExecutedAsWritten ==
    answer # Unanswered =>
      LET run == answer.run
          meant(c) == status = "COMPLETE" /\ Authentic /\ AsksFor(c) /\ Unambiguous(c)
      IN  /\ \A c \in {"START", "STOP", "START_FAILED", "RESET_IDLE", "MAINT_STARTER_ON"} :
               run.command = c <=> meant(c)
          /\ run # NoRun =>
               /\ run.override = (Sent("x-danger-override") # {})
               /\ \A h \in TimingHeaders :
                    run.timings[h] = IF Sent(h) # {} THEN ValueOf(h) ELSE DefaultTiming[h]
               /\ run.id = IF Sent("x-request-id") = {} THEN "none" ELSE LastSent("x-request-id").text

(* A caller without the secret learns nothing of the endpoints, and nobody *)
(* does where no secret is configured: the answer is 401, or an error that *)
(* was found before the request was complete.                              *)
SecretBeforeRoute ==
    answer # Unanswered /\ status = "COMPLETE" /\ ~Authentic => answer.status = 401

=============================================================================
