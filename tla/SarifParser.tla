---------------------------- MODULE SarifParser ----------------------------
(***************************************************************************)
(* Parser.Parse of internal/parsing/sarif on the bytes ReportStream has    *)
(* delivered: validateJSON, a recursion over the decoder's tokens that     *)
(* enforces the structural limits, and then parseDocument, which visits    *)
(* the elements of the log in a fixed order, checks them, and warns of the *)
(* fields it does not know.                                                *)
(*                                                                         *)
(* The report's content is chosen as it is read: validateJSON meets any    *)
(* token encoding/json can return next, parseDocument any element with any *)
(* valid or invalid fields and any number of parts.  That the second pass  *)
(* sees the bytes the first one accepted is not used.  A recursion is its  *)
(* stack: frames for the first pass, the elements still to visit for the   *)
(* second.                                                                 *)
(***************************************************************************)
EXTENDS ReportStream, FiniteSets, Sequences

CONSTANTS
    Names,              \* names of object members
    MaxTokens,          \* bound on the tokens of a report
    MaxJSONDepth, MaxObjectMembers, MaxArrayElements,
    MaxRuns, MaxRulesPerRun, MaxResultsPerRun, MaxInvocationsPerRun,
    MaxLocationsPerResult, MaxFingerprintsPerResult,
    MaxWarnings, MaxUnsupportedFieldsPerWarning,
    MaxFields           \* bound on the unknown fields of an element

ASSUME ParserConstants ==
    /\ {MaxJSONDepth, MaxObjectMembers, MaxArrayElements, MaxRuns, MaxRulesPerRun,
        MaxResultsPerRun, MaxInvocationsPerRun, MaxLocationsPerResult,
        MaxFingerprintsPerResult, MaxWarnings,
        MaxUnsupportedFieldsPerWarning} \subseteq Nat \ {0}
    /\ MaxTokens \in Nat /\ MaxFields \in Nat

VARIABLES
    stage,          \* what Parse is doing, or its error code
    frames,         \* the open containers, innermost last
    tokens,         \* the tokens read so far
    pending,        \* the elements parseDocument has still to visit
    unsupported,    \* how many elements had unknown fields
    warnings,       \* parseState.warnings
    warningsTruncated

json == <<frames, tokens>>
sarif == <<pending, unsupported, warnings, warningsTruncated>>
parser == <<stage, json, sarif>>

ParserInit ==
    /\ stage = "idle"
    /\ frames = <<>> /\ tokens = <<>>
    /\ pending = <<>> /\ unsupported = 0
    /\ warnings = <<>> /\ warningsTruncated = FALSE

\* ReadAll has returned, the data fits, and is UTF-8 or not.
StartParse ==
    /\ pc = "parsed" /\ stage = "idle"
    /\ stage' \in {"validating", "invalid_encoding"}
    /\ UNCHANGED <<json, sarif>>

-----------------------------------------------------------------------------
(* validateJSON                                                            *)

\* A token: an opening or closing delimiter, a member's name, or a scalar.  Long names
\* and strings exceed MaxStringBytes.
Token == [type : {"object", "array", "endObject", "endArray", "scalar"}]
         \cup [type : {"name"}, name : Names]
         \cup [type : {"longName", "longString"}]

Opening(token) == token.type \in {"object", "array"}
Closing(token) == token.type \in {"endObject", "endArray"}
IsName(token) == token.type \in {"name", "longName"}

\* The innermost open container, and the ones around it.
Top(stack) == stack[Len(stack)]
Below(stack) == SubSeq(stack, 1, Len(stack) - 1)

Frame(token) == [kind |-> token.type, count |-> 0, seen |-> {}, due |-> "next"]

\* What the decoder may return next; it accepts no other token, and a name comes
\* without the colon, an element without the comma.  "due" says whether the
\* innermost object expects the value of a member.
Acceptable(token) ==
    IF frames = <<>>
    THEN tokens = <<>> /\ ~Closing(token) /\ ~IsName(token)
    ELSE LET frame == Top(frames)
         IN  CASE frame.due = "value" -> ~Closing(token) /\ ~IsName(token)
               [] frame.kind = "object" /\ frame.due = "next" ->
                    IsName(token) \/ token.type = "endObject"
               [] frame.kind = "array" -> ~IsName(token) /\ token.type # "endObject"

\* A member's name has been read: its value is due.
Named(frame, name) == [frame EXCEPT !.seen = frame.seen \cup {name}, !.due = "value"]

\* A value has been read in full: its container goes on to the next.
Settled(stack) ==
    IF stack = <<>> THEN stack
    ELSE [stack EXCEPT ![Len(stack)].due = "next"]

\* One member more, or one element more, in the innermost container.
Counted(token) ==
    IF frames = <<>> THEN frames
    ELSE IF IsName(token) \/ Top(frames).kind = "array"
    THEN [frames EXCEPT ![Len(frames)].count = Top(frames).count + 1]
    ELSE frames

\* Mutant: depth counts the containers around this one only.
TooManyDeep(token, stack) ==
    \/ Opening(token) /\ Len(stack) > MaxJSONDepth
    \/ token.type \in {"longName", "longString"}
    \/ stack # <<>> /\ Top(stack).count > (IF Top(stack).kind = "object"
                                           THEN MaxObjectMembers ELSE MaxArrayElements)

\* A limit is exceeded by this token, given the containers with it counted in.
TooMany(token, stack) ==
    \/ Opening(token) /\ Len(stack) + 1 > MaxJSONDepth
    \/ token.type \in {"longName", "longString"}
    \/ stack # <<>> /\ Top(stack).count > (IF Top(stack).kind = "object"
                                           THEN MaxObjectMembers ELSE MaxArrayElements)

\* The steps of validateJSONValue between two tokens.
ReadToken(token) ==
    /\ Acceptable(token)
    /\ tokens' = Append(tokens, token)
    /\ IF Closing(token)
       THEN frames' = Settled(Below(frames)) /\ UNCHANGED stage
       ELSE LET stack == Counted(token)
                top == Len(stack)
            IN  CASE TooMany(token, stack) ->
                       stage' = "limit_exceeded" /\ frames' = <<>>
                  [] ~TooMany(token, stack) /\ IsName(token) ->
                       IF token.name \in stack[top].seen
                       THEN stage' = "malformed_json" /\ frames' = <<>>
                       ELSE /\ frames' = [stack EXCEPT ![top] = Named(stack[top], token.name)]
                            /\ UNCHANGED stage
                  [] ~TooMany(token, stack) /\ Opening(token) ->
                       frames' = Append(stack, Frame(token)) /\ UNCHANGED stage
                  [] OTHER -> frames' = Settled(stack) /\ UNCHANGED stage

ValidateStep ==
    /\ stage = "validating" /\ Len(tokens) < MaxTokens
    /\ \E token \in Token : ReadToken(token)
    /\ UNCHANGED sarif

\* The decoder finds a syntax error or the end of the input, or the context ends.
ValidateFails ==
    /\ stage = "validating" /\ (tokens = <<>> \/ frames # <<>>)
    /\ stage' \in {"malformed_json", "cancelled"}
    /\ frames' = <<>> /\ tokens' = <<>>
    /\ UNCHANGED sarif

\* validateJSON after the value: anything but EOF is an error.
ValidateEnds ==
    /\ stage = "validating" /\ tokens # <<>> /\ frames = <<>>
    /\ stage' \in {"validated", "malformed_json"}
    /\ UNCHANGED <<json, sarif>>

\* The root must be an object.
StartDocument ==
    /\ stage = "validated"
    /\ IF tokens[1].type = "object"
       THEN stage' = "parsing" /\ pending' = <<"document">>
       ELSE stage' = "invalid_sarif" /\ UNCHANGED pending
    /\ tokens' = <<>>
    /\ UNCHANGED <<frames, unsupported, warnings, warningsTruncated>>

-----------------------------------------------------------------------------
(* parseDocument                                                           *)

\* Mutant: the warning that does not fit any more is dropped without a trace.
recordUnsupportedSilent(fields) ==
    IF fields = 0 \/ Len(warnings) >= MaxWarnings
    THEN UNCHANGED <<warnings, warningsTruncated>>
    ELSE /\ warnings' = Append(warnings,
                [fieldCount |-> fields,
                 fields |-> Least(fields, MaxUnsupportedFieldsPerWarning),
                 fieldsTruncated |-> fields > MaxUnsupportedFieldsPerWarning])
         /\ UNCHANGED warningsTruncated

\* An element with so many unknown fields.
recordUnsupported(fields) ==
    IF fields = 0
    THEN UNCHANGED <<warnings, warningsTruncated>>
    ELSE IF Len(warnings) >= MaxWarnings
    THEN warningsTruncated' = TRUE /\ UNCHANGED warnings
    ELSE /\ warnings' = Append(warnings,
                [fieldCount |-> fields,
                 fields |-> Least(fields, MaxUnsupportedFieldsPerWarning),
                 fieldsTruncated |-> fields > MaxUnsupportedFieldsPerWarning])
         /\ UNCHANGED warningsTruncated

Times(n, part) == [i \in 1..n |-> part]
Optional(part) == {<<>>, <<part>>}

\* The element at hand is sound: its unknown fields are recorded, and its parts
\* are visited before what was pending already.
Visit(parts) ==
    /\ \E fields \in 0..MaxFields :
          /\ recordUnsupported(fields)
          /\ unsupported' = unsupported + (IF fields > 0 THEN 1 ELSE 0)
    /\ pending' = parts \o Tail(pending)
    /\ stage' = IF pending' = <<>> THEN "accepted" ELSE "parsing"

\* The error is returned through all callers; the warnings are lost with the document.
Reject(code) ==
    /\ stage' = code /\ pending' = <<>>
    /\ UNCHANGED <<unsupported, warnings, warningsTruncated>>

At(element) == stage = "parsing" /\ Head(pending) = element /\ UNCHANGED json

\* Any element may lack a required field or have one of the wrong type or value; a
\* log may have another version.
ParseInvalid ==
    /\ stage = "parsing"
    /\ \/ Head(pending) # "ruleFields" /\ Reject("invalid_sarif")
       \/ Head(pending) = "document" /\ Reject("unsupported_version")
       \/ Head(pending) = "run" /\ Reject("cancelled")
    /\ UNCHANGED json

parseDocument ==
    /\ At("document")
    /\ \E runs \in 0..(MaxRuns + 1) :
          IF runs > MaxRuns THEN Reject("limit_exceeded") ELSE Visit(Times(runs, "run"))

\* The limits of a run are checked before its tool is looked at.
parseRun ==
    /\ At("run")
    /\ \E invocations \in 0..(MaxInvocationsPerRun + 1), results \in 0..(MaxResultsPerRun + 1) :
          IF invocations > MaxInvocationsPerRun \/ results > MaxResultsPerRun
          THEN Reject("limit_exceeded")
          ELSE Visit(<<"tool">> \o Times(invocations, "invocation") \o Times(results, "result"))

parseTool == At("tool") /\ Visit(<<"driver">>)

\* The driver, with what parseRun does between it and the invocations.
parseDriver ==
    /\ At("driver")
    /\ \E rules \in 0..(MaxRulesPerRun + 1), details \in Optional("automationDetails") :
          IF rules > MaxRulesPerRun
          THEN Reject("limit_exceeded")
          ELSE Visit(details \o Times(rules, "rule"))

parseAutomationDetails == At("automationDetails") /\ Visit(<<>>)

parseInvocation == At("invocation") /\ Visit(<<>>)

\* parseMessage and parseOptionalMultiformatMessage.
parseMessage == At("message") /\ Visit(<<>>)

\* A rule's own unknown fields are recorded after those of its configuration.
parseRule ==
    \/ /\ At("rule")
       /\ \E configuration \in Optional("configuration"), messages \in 0..3 :
             pending' = configuration \o <<"ruleFields">> \o Times(messages, "message")
                          \o Tail(pending)
       /\ UNCHANGED <<stage, unsupported, warnings, warningsTruncated>>
    \/ At("configuration") /\ Visit(<<>>)
    \/ At("ruleFields") /\ Visit(<<>>)

parseResult ==
    /\ At("result")
    /\ \E locations \in 0..(MaxLocationsPerResult + 1),
          fingerprints \in 0..(MaxFingerprintsPerResult + 1) :
          IF locations > MaxLocationsPerResult \/ fingerprints > MaxFingerprintsPerResult
          THEN Reject("limit_exceeded")
          ELSE Visit(<<"message">> \o Times(locations, "location"))

parseLocation ==
    \/ At("location") /\ \E physical \in Optional("physicalLocation") : Visit(physical)
    \/ /\ At("physicalLocation")
       /\ \E artifact \in Optional("artifactLocation"), region \in Optional("region") :
             Visit(artifact \o region)
    \/ At("artifactLocation") /\ Visit(<<>>)
    \/ At("region") /\ Visit(<<>>)

ParserNext ==
    \/ StartParse \/ ValidateStep \/ ValidateFails \/ ValidateEnds \/ StartDocument
    \/ ParseInvalid \/ parseDocument \/ parseRun \/ parseTool \/ parseDriver
    \/ parseAutomationDetails \/ parseRule \/ parseInvocation \/ parseResult
    \/ parseMessage \/ parseLocation

ReportInit == StreamInit /\ ParserInit

ReportNext ==
    \/ StreamNext /\ UNCHANGED parser
    \/ ParserNext /\ UNCHANGED stream

ReportSpec == ReportInit /\ [][ReportNext]_<<stream, parser>>

-----------------------------------------------------------------------------
(* Properties                                                              *)

(* What the structure of a text says, by the positions of its tokens.      *)

\* The containers open before token i.
Nesting(text, i) ==
    Cardinality({j \in 1..(i - 1) : Opening(text[j])})
      - Cardinality({j \in 1..(i - 1) : Closing(text[j])})

\* The tokens directly in the container that token i opens.
Inside(text, i) ==
    {j \in (i + 1)..Len(text) :
        /\ ~Closing(text[j]) /\ Nesting(text, j) = Nesting(text, i) + 1
        /\ \A k \in (i + 1)..j : Nesting(text, k) > Nesting(text, i)}

MemberNames(text, i) == {j \in Inside(text, i) : IsName(text[j])}

WithinLimits(text) ==
    \A i \in 1..Len(text) :
        /\ text[i].type \notin {"longName", "longString"}
        /\ Opening(text[i]) => Nesting(text, i) + 1 <= MaxJSONDepth
        /\ text[i].type = "object" => Cardinality(MemberNames(text, i)) <= MaxObjectMembers
        /\ text[i].type = "array" => Cardinality(Inside(text, i)) <= MaxArrayElements

NamesDistinct(text) ==
    \A i \in 1..Len(text) : text[i].type = "object" =>
        \A j, k \in MemberNames(text, i) : text[j] = text[k] => j = k

Complete(text) == text # <<>> /\ Nesting(text, Len(text) + 1) = 0

\* validateJSON decides by its recursion what the text's structure says: it goes on
\* only within every limit and with distinct names in each object, whatever other
\* containers were opened and closed in between; it accepts only a complete value;
\* and it reports a limit only if one is exceeded.
ValidatorExact ==
    /\ stage \in {"validating", "validated"} => WithinLimits(tokens) /\ NamesDistinct(tokens)
    /\ stage = "validated" => Complete(tokens)
    /\ stage = "limit_exceeded" /\ tokens # <<>> => ~WithinLimits(tokens)
    /\ stage = "malformed_json" =>
          /\ WithinLimits(tokens)
          /\ tokens = <<>> \/ Complete(tokens) \/ ~NamesDistinct(tokens)

\* Every element with unknown fields has a warning, or the document says that
\* warnings are missing, and it says so only if some are; likewise for the fields
\* of a warning.
WarningsAccounted ==
    stage \in {"parsing", "accepted"} =>
        /\ Len(warnings) = Least(unsupported, MaxWarnings)
        /\ warningsTruncated <=> unsupported > Len(warnings)
        /\ \A i \in DOMAIN warnings :
              /\ warnings[i].fields <= MaxUnsupportedFieldsPerWarning
              /\ warnings[i].fieldsTruncated <=> warnings[i].fieldCount > warnings[i].fields
=============================================================================
