--------------------------- MODULE MCHttpRequest ----------------------------
(* A small instance of HttpRequest: lines of at most two bytes, a section  *)
(* of nine at most, and 42 as the largest uint32_t.                        *)
EXTENDS HttpRequest

MCLimits == [h \in TimingHeaders |-> IF h = "x-crank-ms" THEN 5 ELSE 9]

MCDefaults == [h \in TimingHeaders |-> 1]

Line(method, path) ==
    [form |-> "request", method |-> method, path |-> path, sinceGiven |-> FALSE, since |-> << >>]

MCRequestLines ==
    {Line("GET", "/v1/status"), Line("POST", "/v1/status"), Line("POST", "/v1/start"),
     Line("POST", "/v1/stop"), Line("POST", "/v1/maintenance/starter/on"),
     [Line("GET", "/v1/log") EXCEPT !.sinceGiven = TRUE, !.since = <<4, 2>>],
     [Line("GET", "/v1/log") EXCEPT !.sinceGiven = TRUE],
     [Line("GET", "none") EXCEPT !.form = "no_path"],
     [Line("none", "none") EXCEPT !.form = "no_request_line"]}

Header(name, text) == [name |-> name, text |-> text, digits |-> << >>]

Timing(name, digits) == [name |-> name, text |-> "none", digits |-> digits]

MCHeaderLines ==
    {Header("x-pump-secret", "right"), Header("x-pump-secret", "wrong"),
     Header("x-pump-secret", "too_long"),
     Header("x-danger-override", "phrase"), Header("x-danger-override", "yes"),
     Header("x-request-id", "r1"), Header("x-request-id", "not_an_id"),
     Header("host", "pump"), Header("none", "no_colon"),
     Timing("x-crank-ms", <<2>>), Timing("x-crank-ms", <<9>>), Timing("x-crank-ms", <<4, 3>>),
     Timing("x-choke-ms", <<0, 9>>), Timing("x-choke-ms", <<10>>), Timing("x-choke-ms", << >>),
     Timing("x-unchoke-ms", <<1, 0, 0>>), Timing("x-unchoke-ms", <<4, 2>>)}

=============================================================================
