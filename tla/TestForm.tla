------------------------------ MODULE TestForm ------------------------------
(***************************************************************************)
(* What becomes of a test the user asks for on the Network Tests tab: the  *)
(* form and its validators (webClient/frontend, TestForm.tsx and           *)
(* validation.ts), the web client's server, which validates it again and   *)
(* passes it on (webClient/api/app.py), and the testServer, which          *)
(* validates it once more and runs it (testServer/internal).               *)
(*                                                                         *)
(* Targets and host names are classes of what can be typed.  A number that *)
(* may be absent is a set of at most one.  The form is disabled while its  *)
(* test runs; edits between the submission and test_started touch nothing  *)
(* of the request and are left out, and so is the browser's own check of   *)
(* min, max and required, which lets nothing pass that the validators      *)
(* would not.                                                              *)
(***************************************************************************)
EXTENDS Integers

CONSTANTS
    Ports, Timeouts, Counts,   \* numbers the user types
    Names                      \* host names the user asks a DNS server for

ASSUME FormAssumption ==
    /\ Ports \subseteq Int /\ Timeouts \subseteq Int /\ Counts \subseteq Int
    /\ {22, 53, 443} \subseteq Ports /\ 30 \in Timeouts /\ 10 \in Counts
    /\ "google.com" \in Names

VARIABLES
    form,     \* the fields
    stage,    \* where the request is: still in the form, on its way, or over
    request   \* the fields of it that the next component reads

formVars == <<form, stage, request>>

Types == {"http", "tcp", "udp", "icmp"}

(* What can be typed as a target: a name or an IP address (the link-local  *)
(* ones included); a URL of which the browser and the testServer take the  *)
(* same host; a URL that new URL takes and Go does not, for a percent sign *)
(* that escapes nothing, a space before it, a host that only punycode      *)
(* makes a name, or more than 255 bytes in 255 characters; and a name that *)
(* begins with 169.254. and is not an IP address (169.254.1, 169.254.01.1).*)
Targets == {"blank", "overlong", "malformed", "host", "url",
            "URL for browsers", "link-local name"}
OnlyBrowserTakes == {"URL for browsers", "link-local name"}
Queries == Names \cup {"", "malformed name"}

(* protocolOptions, defaultPorts and the whitelists; the last are the same *)
(* in the browser and in the testServer.                                   *)
protocolOptions == [http |-> {"HTTP/1.1", "HTTP/2", "HTTP/3"},
                    tcp |-> {"Raw TCP", "SSH", "TLS"}, udp |-> {}, icmp |-> {}]
defaultPorts == [http |-> {443}, tcp |-> {22}, udp |-> {53}, icmp |-> {}]
validProtocols == [protocolOptions EXCEPT !.udp = {"DNS"}, !.icmp = {"ping"}]

Protocols == (UNION {validProtocols[t] : t \in Types}) \cup {""}
Fields == [type : Types, target : Targets, port : SUBSET Ports,
           timeout : Timeouts, count : Counts, protocol : Protocols,
           query : Queries]
Stages == {"form", "server", "testServer", "refused", "failed", "done"}

FormTypeOK == form \in Fields /\ stage \in Stages /\ request \in Fields

(* The state of useState.                                                  *)
Defaults == [type |-> "http", target |-> "blank", port |-> {}, timeout |-> 30,
             count |-> 10, protocol |-> "", query |-> "google.com"]

FormInit == form = Defaults /\ stage = "form" /\ request = Defaults

-----------------------------------------------------------------------------
(* The form.                                                               *)

(* The type's buttons, and the protocols it offers.                        *)
TypeFields == {"type"} \cup IF protocolOptions[form.type] = {} THEN {} ELSE {"protocol"}

(* The DNS server and the name to look up, with the port fixed to 53; or   *)
(* the host and, except for ICMP, the port.                                *)
TargetFields ==
    {"target"} \cup CASE form.type = "udp" -> {"query"}
                      [] form.type = "icmp" -> {}
                      [] OTHER -> {"port"}

(* Timeout, count, and the submit button once there is a target.           *)
OtherFields == {"timeout", "count"} \cup IF form.target = "blank" THEN {} ELSE {"submit"}

Offered(field) ==
    stage = "form" /\ field \in TypeFields \cup TargetFields \cup OtherFields

(* Mutant: the fields of the last type stay as they are.                   *)
KeepFields(type) ==
    /\ Offered("type")
    /\ form' = [form EXCEPT !.type = type]
    /\ UNCHANGED <<stage, request>>

handleTestTypeChange(type) ==
    /\ Offered("type")
    /\ form' = [form EXCEPT !.type = type, !.port = defaultPorts[type],
                            !.protocol = IF type = "udp" THEN "DNS" ELSE ""]
    /\ UNCHANGED <<stage, request>>

Edit ==
    /\ \/ Offered("target") /\ \E v \in Targets : form' = [form EXCEPT !.target = v]
       \/ Offered("port") /\ \E v \in {{}} \cup {{p} : p \in Ports} :
             form' = [form EXCEPT !.port = v]
       \/ Offered("timeout") /\ \E v \in Timeouts : form' = [form EXCEPT !.timeout = v]
       \/ Offered("count") /\ \E v \in Counts : form' = [form EXCEPT !.count = v]
       \/ Offered("protocol") /\ \E v \in protocolOptions[form.type] \cup {""} :
             form' = [form EXCEPT !.protocol = v]
       \/ Offered("query") /\ \E v \in Queries : form' = [form EXCEPT !.query = v]
    /\ UNCHANGED <<stage, request>>

(* The browser strips and normalises before it looks at the host.          *)
validateTarget(target) == target \notin {"blank", "overlong", "malformed"}
validateDNSQuery(query) == query \notin {"", "malformed name"}
validatePort(port) == port >= 1 /\ port <= 65535
validateTimeout(timeout) == timeout >= 1 /\ timeout <= 300
ValidateCountLoosely(count) == count >= 1      \* Mutant: no upper bound.
validateCount(count) == count >= 1 /\ count <= 1000
validateProtocol(f) == f.protocol = "" \/ f.protocol \in validProtocols[f.type]

(* handleSubmit: the checks in the browser, and what is handed to          *)
(* websocketService.startTest.                                             *)
handleSubmit ==
    /\ Offered("submit")
    /\ validateTarget(form.target) /\ validateProtocol(form)
    /\ \A p \in form.port : validatePort(p)
    /\ validateTimeout(form.timeout) /\ validateCount(form.count)
    /\ form.type = "udp" => validateDNSQuery(form.query)
    /\ request' = [form EXCEPT !.query = IF form.type = "udp" THEN @ ELSE ""]
    /\ stage' = "server"
    /\ UNCHANGED form

-----------------------------------------------------------------------------
(* The servers.                                                            *)

validate_test_params(r) ==
    /\ r.target \notin {"blank", "overlong"}
    /\ \A p \in r.port : p >= 1 /\ p <= 65535
    /\ r.timeout >= 1 /\ r.timeout <= 300
    /\ r.count >= 1 /\ r.count <= 1000

(* handle_start_test: the fields are copied one by one; query is not among *)
(* them.                                                                   *)
handle_start_test ==
    /\ stage = "server"
    /\ IF validate_test_params(request)
         THEN stage' = "testServer" /\ request' = [request EXCEPT !.query = ""]
         ELSE stage' = "refused" /\ UNCHANGED request
    /\ UNCHANGED form

(* The handlers of the testServer; an absent number decodes to 0, which is *)
(* not validated.                                                          *)
PortValidated(r) ==
    r.type \in {"tcp", "udp"} => \A p \in r.port : p > 0 => p >= 1 /\ p <= 65535

(* Any IP address is valid; a name must match and not be link-local.       *)
ValidateTarget(target) == target \in {"host", "url"}

Validated(r) ==
    /\ ValidateTarget(r.target)
    /\ r.protocol = "" \/ r.protocol \in validProtocols[r.type]
    /\ PortValidated(r)
    /\ r.type = "icmp" /\ r.count > 0 => r.count <= 1000
    /\ r.timeout > 0 => r.timeout <= 300

(* The handler runs the test or fails to: HTTP/3 is not implemented, and   *)
(* any test may fail.  testDNS has a name of its own for an empty query.   *)
RunTest ==
    /\ stage = "testServer"
    /\ IF ~Validated(request)
         THEN stage' = "refused" /\ UNCHANGED request
         ELSE /\ stage' \in IF request.protocol = "HTTP/3" THEN {"failed"}
                            ELSE {"failed", "done"}
              /\ request' = [request EXCEPT !.query =
                   IF request.type = "udp" /\ @ = "" THEN "google.com" ELSE @]
    /\ UNCHANGED form

(* test_complete or error reaches the page, which enables the form.        *)
TestOver ==
    /\ stage \in {"refused", "failed", "done"}
    /\ stage' = "form" /\ request' = Defaults
    /\ UNCHANGED form

FormNext ==
    \/ \E type \in Types : handleTestTypeChange(type)
    \/ Edit \/ handleSubmit \/ handle_start_test \/ RunTest \/ TestOver

FormSpec == FormInit /\ [][FormNext]_formVars

-----------------------------------------------------------------------------
(* Three validators in three languages agree on numbers, protocols and     *)
(* queries: what the form lets pass is refused by neither server on their  *)
(* account, whatever the order of edits and type changes that led to it.   *)
(* They do not agree on targets: just those that only the browser takes    *)
(* pass the form and are never tested.                                     *)
AcceptedDownstream ==
    /\ stage = "refused" => request.target \in OnlyBrowserTakes
    /\ stage \in {"failed", "done"} => request.target \notin OnlyBrowserTakes

(* Whatever was typed before the type was changed, a request carries what  *)
(* its type needs and nothing a type before it left behind.                *)
RequestFitsType ==
    stage # "form" =>
       /\ request.type = "icmp" => request.port = {} /\ request.protocol = ""
       /\ request.type = "udp" => request.port = {53} /\ request.protocol = "DNS"
       /\ request.type \in {"http", "tcp"} =>
             request.protocol \in protocolOptions[request.type] \cup {""}

(* docs/USAGE.md on the DNS Query field: "Hostname to resolve (if          *)
(* protocol=dns)".                                                         *)
ResolvesTheQuery ==
    stage = "done" /\ request.type = "udp" => request.query = form.query
=============================================================================
