------------------------------ MODULE GrpcConfig ------------------------------
(***************************************************************************)
(* What the caller of GrpcClient prepares and what is made of it: the      *)
(* builders of src/filters.rs and src/config.rs, the checks of connect and *)
(* update_filters, and the endpoint that is dialed (src/transport/grpc.rs).*)
(*                                                                         *)
(* An endpoint is a sequence of pieces of text: "h" and "9" stand for runs *)
(* of other characters and of digits, the rest for themselves.             *)
(***************************************************************************)
EXTENDS Naturals, SequencesExt

CONSTANTS ValidKeys,    \* strings that decode to 32 bytes of base58
          Batches,      \* what one call of a builder may be given
          Names,        \* names of filters
          Endpoints,    \* what the caller may pass for an endpoint
          MAX_NAMED_FILTERS,
          MAX_KEYS_PER_FILTER

ASSUME ConfigAssumption ==
  /\ {MAX_NAMED_FILTERS, MAX_KEYS_PER_FILTER} \subseteq Nat
  /\ Endpoints \subseteq Seq(STRING)
  /\ Batches \subseteq Seq(STRING)

VARIABLES filter,    \* the Filter under construction: none, or one in a sequence
          draft,     \* the Filters under construction
          phase,     \* how far the client has come
          endpoint,  \* the endpoint given to connect
          url,       \* the authority it dials
          filters,   \* the client's filter map
          request,   \* the last filter map sent: none, or one in a sequence
          error      \* the last error returned, and what returned it

vars == <<filter, draft, phase, endpoint, url, filters, request, error>>
clientVars == <<phase, endpoint, url, filters, request>>

None == "none"
NoError == [by |-> None, what |-> None]

-----------------------------------------------------------------------------
(* Filter and Filters.                                                     *)

EmptyFilter == [include |-> <<>>, exclude |-> <<>>, required |-> <<>>]
Lists == {"include", "exclude", "required"}

KeyCount(f) == Len(f.include) + Len(f.exclude) + Len(f.required)

ValidBatch(batch) == Range(batch) \subseteq ValidKeys

\* Mutant of TooLong: only the batch at hand is counted.
TooLongBatch(f, batch) == Len(batch) > MAX_KEYS_PER_FILTER

\* check_len, after the batch has been added.
TooLong(f, batch) == KeyCount(f) + Len(batch) > MAX_KEYS_PER_FILTER

Extended(f, list, batch) == [f EXCEPT ![list] = @ \o batch]

Added(map, name, f) ==
  [n \in DOMAIN map \cup {name} |-> IF n = name THEN f ELSE map[n]]

\* Filters::validate
FilterError(map) ==
  CASE DOMAIN map = {} -> "Empty"
    [] Cardinality(DOMAIN map) > MAX_NAMED_FILTERS -> "TooManyFilters"
    [] OTHER -> IF \E n \in DOMAIN map : KeyCount(map[n]) > MAX_KEYS_PER_FILTER
                  THEN "TooManyKeys" ELSE None

\* filters_to_proto
Proto(map) == [n \in DOMAIN map |-> [account_include  |-> map[n].include,
                                     account_exclude  |-> map[n].exclude,
                                     account_required |-> map[n].required]]

-----------------------------------------------------------------------------
(* normalize_endpoint, and what the http crate accepts of its result.      *)

Places(e, piece) == {i \in DOMAIN e : e[i] = piece}
Has(e, piece) == Places(e, piece) # {}
After(e, i) == SubSeq(e, i + 1, Len(e))
Digits(e) == Range(e) \subseteq {"9"}

Trim(e) == LET text == {i \in DOMAIN e : e[i] # " "}
           IN  IF text = {} THEN <<>> ELSE SubSeq(e, Min(text), Max(text))

StripHttp(e) == IF e # <<>> /\ Head(e) = "http://" THEN Tail(e) ELSE e

\* Mutant of HasPort: whatever follows the last colon is the port.
HasAnyPort(e) == Has(e, ":") /\ After(e, Max(Places(e, ":"))) # <<>>

HasPort(e) ==
  /\ Has(e, ":")
  /\ LET colon == Max(Places(e, ":"))
     IN  /\ Digits(After(e, colon))
         /\ After(e, colon) # <<>>
         /\ Has(e, "]") => colon > Max(Places(e, "]"))

Refused == <<"refused">>

\* The authority of the URL, or Refused.
Normalized(given) ==
  LET e == StripHttp(Trim(given))
  IN  IF e = <<>> \/ Has(e, "/") \/ Has(e, "http://") \/ Has(e, "https://")
        THEN Refused
        ELSE IF HasPort(e) THEN e ELSE e \o <<":", "9991">>

\* http::Uri: no blank, brackets in pairs, one colon outside of them.
Authority(e) ==
  LET outside == IF Has(e, "]") THEN After(e, Max(Places(e, "]"))) ELSE e
  IN  /\ ~Has(e, " ")
      /\ Cardinality(Places(e, "[")) = Cardinality(Places(e, "]"))
      /\ Cardinality(Places(outside, ":")) <= 1

Dialed(given) == LET e == Normalized(given)
                 IN  IF e # Refused /\ Authority(e) THEN e ELSE Refused

-----------------------------------------------------------------------------
Init == /\ filter = <<>>
        /\ draft = <<>>
        /\ phase = "building"
        /\ endpoint = <<>>
        /\ url = <<>>
        /\ filters = <<>>
        /\ request = <<>>
        /\ error = NoError

\* Filter::new, Filter::all
NewFilter ==
  /\ filter = <<>>
  /\ filter' = <<EmptyFilter>>
  /\ UNCHANGED <<draft, clientVars, error>>

\* include, exclude and required take the filter; an error loses it.
Extend(list, batch) ==
  /\ filter # <<>>
  /\ LET what == CASE ~ValidBatch(batch) -> "InvalidKey"
                   [] ValidBatch(batch) /\ TooLong(filter[1], batch) -> "TooManyKeys"
                   [] OTHER -> None
     IN  /\ filter' = IF what = None THEN <<Extended(filter[1], list, batch)>> ELSE <<>>
         /\ error' = IF what = None THEN error ELSE [by |-> "builder", what |-> what]
  /\ UNCHANGED <<draft, clientVars>>

\* Filters::add and GrpcConfig::filter
Add(name) ==
  /\ filter # <<>>
  /\ draft' = Added(draft, name, filter[1])
  /\ filter' = <<>>
  /\ UNCHANGED <<clientVars, error>>

\* Filters::new, as the map to go on with.
NewFilters ==
  /\ draft # <<>>
  /\ draft' = <<>>
  /\ UNCHANGED <<filter, clientVars, error>>

\* GrpcClient::connect up to its dial: the map, the endpoint, the token.
Connect(given, tokenFits) ==
  /\ phase = "building"
  /\ filter = <<>>
  /\ LET what == CASE FilterError(draft) # None -> FilterError(draft)
                   [] FilterError(draft) = None /\ Dialed(given) = Refused
                        -> "InvalidEndpoint"
                   [] OTHER -> IF tokenFits THEN None ELSE "InvalidToken"
     IN  /\ error' = IF what = None THEN error ELSE [by |-> "connect", what |-> what]
         /\ phase' = IF what = None THEN "dialing" ELSE "failed"
         /\ filters' = IF what = None THEN draft ELSE filters
  /\ endpoint' = given
  /\ url' = Dialed(given)
  /\ draft' = <<>>
  /\ UNCHANGED <<filter, request>>

DialFails ==
  /\ phase = "dialing"
  /\ phase' = "failed"
  /\ error' = [by |-> "connect", what |-> "Transport"]
  /\ UNCHANGED <<filter, draft, endpoint, url, filters, request>>

\* try_connect, from connect or from next_update; the endpoint has served.
Subscribe ==
  /\ phase \in {"dialing", "disconnected"}
  /\ phase' = "connected"
  /\ request' = <<Proto(filters)>>
  /\ endpoint' = <<>>
  /\ url' = <<>>
  /\ UNCHANGED <<filter, draft, filters, error>>

Disconnect ==
  /\ phase = "connected"
  /\ phase' = "disconnected"
  /\ UNCHANGED <<filter, draft, endpoint, url, filters, request, error>>

\* Mutant of UpdateFilters: the map is stored before it is checked.
UpdateFiltersFirst ==
  /\ phase \in {"connected", "disconnected"}
  /\ filter = <<>>
  /\ filters' = draft
  /\ IF FilterError(draft) = None
       THEN /\ request' = IF phase = "connected" THEN <<Proto(draft)>> ELSE request
            /\ UNCHANGED error
       ELSE /\ error' = [by |-> "update_filters", what |-> FilterError(draft)]
            /\ UNCHANGED request
  /\ draft' = <<>>
  /\ UNCHANGED <<filter, phase, endpoint, url>>

UpdateFilters ==
  /\ phase \in {"connected", "disconnected"}
  /\ filter = <<>>
  /\ IF FilterError(draft) = None
       THEN /\ filters' = draft
            /\ request' = IF phase = "connected" THEN <<Proto(draft)>> ELSE request
            /\ UNCHANGED error
       ELSE /\ error' = [by |-> "update_filters", what |-> FilterError(draft)]
            /\ UNCHANGED <<filters, request>>
  /\ draft' = <<>>
  /\ UNCHANGED <<filter, phase, endpoint, url>>

\* The caller builds the map for connect, or the next one for update_filters.
BuilderStep == /\ phase \notin {"dialing", "failed"}
               /\ \/ NewFilter
                  \/ \E list \in Lists, batch \in Batches : Extend(list, batch)
                  \/ \E name \in Names : Add(name)
                  \/ NewFilters

ClientStep == \/ \E given \in Endpoints, tokenFits \in BOOLEAN : Connect(given, tokenFits)
              \/ DialFails
              \/ Subscribe
              \/ Disconnect
              \/ UpdateFilters

Next == BuilderStep \/ ClientStep

Spec == Init /\ [][Next]_vars

-----------------------------------------------------------------------------
\* Type invariant: what the builders let through is within its limit.
FilterType == [include : Seq(ValidKeys), exclude : Seq(ValidKeys), required : Seq(ValidKeys)]

FilterOK(f) == f \in FilterType /\ KeyCount(f) <= MAX_KEYS_PER_FILTER

FiltersOK(map) == DOMAIN map \subseteq Names /\ \A n \in DOMAIN map : FilterOK(map[n])

TypeOK ==
  /\ Len(filter) <= 1 /\ \A f \in Range(filter) : FilterOK(f)
  /\ FiltersOK(draft) /\ FiltersOK(filters)
  /\ phase \in {"building", "dialing", "connected", "disconnected", "failed"}
  /\ endpoint \in Seq(STRING)
  /\ url \in {<<>>, Dialed(endpoint)}
  /\ Len(request) <= 1
  /\ error.by \in {None, "builder", "connect", "update_filters"}
  /\ error.what \in {None, "InvalidKey", "TooManyKeys", "Empty", "TooManyFilters",
                     "InvalidEndpoint", "InvalidToken", "Transport"}

\* Whatever is built, refused or replaced before a connection or a
\* reconnection, the server is sent one filter at least and no more than it
\* takes, each within its limit and of well-formed keys only: a map that was
\* refused is never the one sent later (grpc.rs:129, 186, 315-320).
RequestsSound ==
  \A map \in Range(request) :
    /\ DOMAIN map # {}
    /\ Cardinality(DOMAIN map) <= MAX_NAMED_FILTERS
    /\ \A n \in DOMAIN map :
         LET keys == map[n].account_include \o map[n].account_exclude
                       \o map[n].account_required
         IN  Len(keys) <= MAX_KEYS_PER_FILTER /\ Range(keys) \subseteq ValidKeys

\* The limit of keys is enforced twice, and the builders leave nothing to the
\* second check: a map is only ever refused for its number of filters
\* (filters.rs:75-80 and 109-113).
RefusedForNumber ==
  error.by # "builder" => error.what # "TooManyKeys"

\* What an endpoint of the documented form means, host or host:port with an
\* IPv6 literal in brackets (api.md:182-183).
Host(e) == e # <<>> /\ (Range(e) \subseteq {"h", "9"} \/ e = <<"[", ":", "9", "]">>)

Meanings(e) ==
  {meaning \in {<<e, <<"9991">>>>}
                 \cup {<<SubSeq(e, 1, i - 1), After(e, i)>> : i \in Places(e, ":")} :
     /\ Host(meaning[1])
     /\ meaning[2] # <<>> /\ Range(meaning[2]) \subseteq {"9", "9991"}}

\* An endpoint of the documented form is dialed at its own host and port, or
\* 9991; one with a path, another scheme, a bare IPv6 address, a port that is
\* not digits or nothing at all is refused (errors.md:14, grpc.rs:41-60).  An
\* empty host with a port is left for the dial to fail on.  "9" stands for any
\* run of digits: a port too large for a u16 is not told apart from others.
EndpointRule ==
  phase = "dialing" \/ error.what = "InvalidEndpoint" =>
    LET e == StripHttp(Trim(endpoint))
    IN  IF Meanings(e) = {}
          THEN url = Refused \/ Head(e) = ":"
          ELSE \A meaning \in Meanings(e) : url = meaning[1] \o <<":">> \o meaning[2]
=============================================================================
