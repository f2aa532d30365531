-------------------------------- MODULE Web --------------------------------
(***************************************************************************)
(* How pages are fetched and the web is searched: co_cli/tools/web.        *)
(*                                                                         *)
(* Times are in tenths of a second and a delay that is drawn at random is  *)
(* the interval it is drawn from. An address is a record of the marks that *)
(* the library gives it; a domain is the sequence of its labels, the top   *)
(* one last, in lower case as the settings and the tool have it. A server  *)
(* is the sequence of what it answers, one for each request.               *)
(***************************************************************************)
EXTENDS Integers, Sequences, FiniteSets, SequencesExt

Nil == [kind |-> "nil"]

-----------------------------------------------------------------------------
(* What may be fetched.                                                     *)

\* mime is the header up to its first semicolon, "" for none.
IsContentTypeAllowed(mime) ==
    mime \in {"", "text", "application/json", "application/xml", "application/xhtml+xml",
              "application/x-yaml", "application/yaml"}

IsDomainAllowed(host, allowed, blocked) ==
    /\ ~\E domain \in blocked : IsSuffix(domain, host)
    /\ allowed = {} \/ \E domain \in allowed : IsSuffix(domain, host)

BlockedHostnames == {<<"metadata", "google", "internal">>, <<"metadata", "goog">>, <<"metadata", "internal">>}

BlockedMarks == {"private", "loopback", "link_local", "reserved", "multicast", "unspecified"}

IsBlockedIp(ip) ==
    \/ ip.marks \cap BlockedMarks # {}
    \/ /\ ip.version = 6 /\ ip.mapped # {}
       /\ \E marks \in ip.mapped : marks \cap (BlockedMarks \cup {"shared"}) # {}
    \/ ip.version = 4 /\ "shared" \in ip.marks

\* A name is what a resolver says of it: an answer is "failed" or the sequence of
\* its addresses, some of which the library cannot read.
IsUrlSafe(host, answer) ==
    /\ host # <<>> /\ host \notin BlockedHostnames
    /\ answer.kind = "addresses"
    /\ \A i \in DOMAIN answer.ips : answer.ips[i].readable /\ ~IsBlockedIp(answer.ips[i])

\* ssrf_redirect_guard: whether a response is let through.
RedirectGuard(response, answer) ==
    response.redirect /\ response.location # <<>> => IsUrlSafe(response.location[1], answer)

\* SSRFSafeNetworkBackend.connect_tcp: the address that is connected to, <<>> for none.
ConnectTcp(answer) ==
    LET readable == SelectSeq(answer.ips, LAMBDA ip : ip.readable)
    IN  IF \/ answer.kind = "failed" \/ readable = <<>>
           \/ \E i \in DOMAIN readable : IsBlockedIp(readable[i])
        THEN <<>> ELSE <<readable[1]>>

-----------------------------------------------------------------------------
(* How long to wait, and whether to.                                        *)

RetryableCodes == {408, 409, 425, 429, 500, 502, 503, 504}

\* A header's value is a number (in its own unit), a date so far ahead or junk.
Seconds(raw) == IF raw.kind = "number" THEN <<Max({raw.value, 0})>> ELSE <<>>
DateAhead(raw) == IF raw.kind = "date" THEN <<Max({raw.value, 0})>> ELSE <<>>

\* The header in milliseconds, else the one in seconds or as a date, else what the
\* body says; ms is rounded down to a tenth.
ParseRetryAfter(answer, most) ==
    LET ms == Seconds(answer.ms)
        found == IF ms # <<>> THEN <<ms[1] \div 100>>
                 ELSE IF Seconds(answer.after) # <<>> THEN Seconds(answer.after)
                 ELSE IF DateAhead(answer.after) # <<>> THEN DateAhead(answer.after)
                 ELSE Seconds(answer.body)
    IN  IF found = <<>> THEN <<>> ELSE <<Min({found[1], most})>>

\* compute_backoff_delay; jitter is in percent.
ComputeBackoffDelay(attempt, base, most, jitter) ==
    LET delay == Min({base * 2 ^ (Max({attempt, 1}) - 1), most})
        off == (delay * Min({Max({jitter, 0}), 100})) \div 100
    IN  [low |-> Max({0, delay - off}), high |-> Min({most, delay + off})]

\* A delay of nothing counts as none being told: a second.
ClassifyWebHttpError(answer, most) ==
    IF answer.kind # "status" THEN [retryable |-> TRUE, delay |-> 10]
    ELSE IF answer.code \in RetryableCodes \/ answer.code \notin 400..499
    THEN LET told == ParseRetryAfter(answer, most)
         IN  [retryable |-> TRUE, delay |-> IF told = <<>> \/ told = <<0>> THEN 10 ELSE told[1]]
    ELSE [retryable |-> FALSE, delay |-> 0]

\* ...raise_for_status lets 2xx through; a redirect that was followed is none.
Succeeds(answer) == answer.kind = "status" /\ answer.code \in 200..299

IsCloudflareChallenge(answer) == answer.kind = "status" /\ answer.code = 403 /\ answer.challenge

\* _http_get_with_retries: go[n] is what there is from attempt n on, with the server's
\* answers from its request at on. A challenge is asked again with other headers, and an
\* unsafe redirect is no error of the library's: it leaves at once.
HttpGetWithRetries(server, retries, fallback, base, most, jitter) ==
    LET attempts == Max({0, retries}) + 1
        go[n \in 1..attempts, at \in 1..(2 * attempts + 1)] ==
            LET again == fallback /\ IsCloudflareChallenge(server[at])
                last == IF again THEN at + 1 ELSE at
                answer == server[last]
                decision == ClassifyWebHttpError(answer, most)
                drawn == ComputeBackoffDelay(n, base, most, jitter)
                told == IF decision.delay > 0 THEN Min({decision.delay, most}) ELSE 0
                End(outcome) == [outcome |-> outcome, requests |-> last, waits |-> <<>>]
            IN  CASE Succeeds(answer) -> End("response")
                  [] answer.kind = "unsafe" -> End("unsafe")
                  [] OTHER ->
                       IF ~decision.retryable THEN End("error")
                       ELSE IF n >= attempts THEN End("exhausted")
                       ELSE LET rest == go[n + 1, last + 1]
                                wait == [low |-> Max({drawn.low, told}), high |-> Max({drawn.high, told})]
                            IN  [rest EXCEPT !.waits = <<wait>> \o @]
    IN  go[1, 1]

-----------------------------------------------------------------------------
(* The tools.                                                               *)

\* web_fetch up to its first request, in the order of its checks.
Refusal(url, allowed, blocked, answer) ==
    IF ~url.http THEN "scheme"
    ELSE IF url.host # <<>> /\ ~IsDomainAllowed(url.host, allowed, blocked) THEN "domain"
    ELSE IF ~IsUrlSafe(url.host, answer) THEN "address" ELSE ""

\* ...and what it makes of a response: size is in bytes, each character takes width of
\* them, and markdown says how long the text gets when it is converted.
Page(response, format, mostBytes, mostChars, markdown) ==
    IF ~IsContentTypeAllowed(response.mime) THEN [kind |-> "error", chars |-> 0, truncated |-> FALSE]
    ELSE LET cut == Min({response.size, mostBytes})
             decoded == (cut + response.width - 1) \div response.width
             chars == IF response.html /\ format = "markdown" THEN markdown[decoded] ELSE decoded
         IN  [kind |-> "page", chars |-> Min({chars, mostChars}), truncated |-> chars > mostChars]

MaxResults == 8

\* web_search: what it asks of the service, <<>> when it does not.
SearchRequest(query, key, results, domains) ==
    IF query = "" \/ key = "" THEN <<>>
    ELSE <<[sites |-> domains, words |-> query, count |-> Min({results, MaxResults})]>>

\* ...and what it answers: every result the service sent, whatever was asked.
SearchAnswer(sent) ==
    [kind |-> IF sent = <<>> THEN "none" ELSE "results", results |-> sent, count |-> Len(sent)]

-----------------------------------------------------------------------------
(* What is to hold of fetching and searching: how often a server is asked, *)
(* how long a call waits, what is fetched and what is said of a page.      *)

PlainStatus(code) == [kind |-> "status", code |-> code, challenge |-> FALSE, ms |-> Nil, after |-> Nil, body |-> Nil]

\* A call asks twice for each attempt at most, once without other headers to try; it
\* waits after each failed attempt but the last, and ends with a response, with an
\* error that another attempt would not mend, or with all of them used.
RequestsAreBounded(server, retries, fallback, base, most, jitter) ==
    LET done == HttpGetWithRetries(server, retries, fallback, base, most, jitter)
        attempts == Len(done.waits) + 1
        answer == server[done.requests]
    IN  /\ attempts <= retries + 1
        /\ done.requests \in attempts..(IF fallback THEN 2 * attempts ELSE attempts)
        /\ done.outcome = "response" <=> Succeeds(answer)
        /\ done.outcome = "exhausted" => attempts = retries + 1
        /\ done.outcome = "error" => answer.code \in 400..499 \ RetryableCodes
        /\ \A i \in 1..(done.requests - 1) : ~Succeeds(server[i])

\* No wait is longer than the longest the settings allow, and none is empty.
WaitsAreBounded(server, retries, base, most, jitter) ==
    LET done == HttpGetWithRetries(server, retries, TRUE, base, most, jitter)
    IN  \A i \in DOMAIN done.waits :
            LET wait == done.waits[i]
            IN  0 < wait.low /\ wait.low <= wait.high /\ wait.high <= most

\* Without jitter no attempt waits less than the one before when the server tells nothing.
WaitsGrow(retries, base, most) ==
    LET done == HttpGetWithRetries([i \in 1..(2 * retries + 2) |-> PlainStatus(503)], retries, FALSE, base, most, 0)
    IN  /\ Len(done.waits) = retries
        /\ \A i, j \in DOMAIN done.waits : i < j => done.waits[i].high <= done.waits[j].low

\* What the server told is kept to, unless it is more than the settings allow or nothing.
ToldIsKept(answer, most) ==
    LET told == ParseRetryAfter(answer, most)
        done == HttpGetWithRetries(<<answer, PlainStatus(200), PlainStatus(200), PlainStatus(200)>>, 1, FALSE, 0, most, 0)
    IN  answer.code \in RetryableCodes =>
            done.waits[1].low = IF told = <<>> \/ told = <<0>> THEN Min({10, most}) ELSE told[1]

\* A name with one address that is not public is refused by both checks, and where both
\* let it pass the one connected to is one of those checked; an address that cannot be
\* read refuses the name at the first check but is only passed over at the second.
ChecksOfNames(host, answer) ==
    LET bad == \E i \in DOMAIN answer.ips : answer.ips[i].readable /\ IsBlockedIp(answer.ips[i])
    IN  /\ bad => ~IsUrlSafe(host, answer) /\ ConnectTcp(answer) = <<>>
        /\ IsUrlSafe(host, answer) /\ answer.ips # <<>> => ConnectTcp(answer) = <<answer.ips[1]>>
        /\ ConnectTcp(answer) # <<>> => ~IsBlockedIp(ConnectTcp(answer)[1])
        /\ ConnectTcp(answer) # <<>> /\ ~IsUrlSafe(host, answer) =>
             \/ host = <<>> \/ host \in BlockedHostnames
             \/ \E i \in DOMAIN answer.ips : ~answer.ips[i].readable

\* A domain's rule is one of its sub-domains too, and blocking goes before allowing.
DomainsHaveSubdomains(host, label, allowed, blocked) ==
    /\ (\E d \in blocked : IsSuffix(d, host)) => ~IsDomainAllowed(<<label>> \o host, allowed, blocked)
    /\ IsDomainAllowed(host, allowed, {}) => IsDomainAllowed(<<label>> \o host, allowed, {})
    /\ host \in allowed \cap blocked => ~IsDomainAllowed(host, allowed, blocked)

\* A page that was cut by characters says so; one that was cut by bytes says so only
\* when more characters than fit were left of it.
CutsAreTold(response, format, mostBytes, mostChars, markdown) ==
    LET page == Page(response, format, mostBytes, mostChars, markdown)
    IN  page.kind = "page" =>
          /\ page.chars <= mostChars
          /\ page.truncated => page.chars = mostChars
          /\ ~(response.html /\ format = "markdown") /\ response.size <= mostBytes =>
               (page.truncated <=> response.size > response.width * mostChars)

=============================================================================
