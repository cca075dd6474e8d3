------------------------------ MODULE Delivery ------------------------------
(***************************************************************************)
(* A report on its way from the agent to the storage: SendMetricsBatch     *)
(* (internal/agent/send_functions.go), DecryptMiddleware                   *)
(* (internal/server/crypto.go), GzipMiddleware                             *)
(* (internal/repository/gzip.go) and the check of the hash in the batch    *)
(* handler (internal/handler/handlers.go), with the keys that the two      *)
(* programs take from their configuration (Config).                        *)
(*                                                                         *)
(* The agent compresses, then encrypts; the server takes the layers off    *)
(* in the opposite order.  The agent reads the file of the public key for  *)
(* every batch, the server the one of the private key when it starts.      *)
(* RSA-OAEP refuses a text longer than the key: see Fitting.               *)
(***************************************************************************)
EXTENDS Config, Sequences, SequencesExt

CONSTANTS
    Settings,      \* what the operator may give the two programs, see Init
    Fitting,       \* the kinds of batch that are short enough for RSA-OAEP
    MaxReports,    \* bound: reports
    MaxRotations   \* bound: replacements of the pair of key files

Empty == ""

\* The sources of the four settings: the hash key and the path of the key file
\* of the agent and of the server.
ASSUME DeliveryAssumption ==
    /\ \A s \in Settings :
           DOMAIN s = {"agentKey", "agentCrypto", "serverKey", "serverCrypto"}
    /\ Fitting \subseteq {"gauge", "counter"}
    /\ MaxReports \in Nat \ {0} /\ MaxRotations \in Nat

VARIABLES
    setting,   \* the sources of the keys of both programs
    database,  \* the server runs in the database mode
    pair,      \* the version of the pair of key files
    private,   \* the version of the server's private key, 0 for none
    polled,    \* the agent's storage has gauges
    stage,     \* where the batch is
    kind,      \* the batch being sent
    report,    \* the number of the report
    body,      \* the layers around the batch's JSON, the last one outside
    hash,      \* the HashSHA256 header: what it was computed of, or <<>>
    status,    \* the outcome of each batch of this report; 0 is an error of
               \* the agent, NotYet before the answer, Nothing if there was
               \* nothing to send
    agreed,    \* history: the two sides agreed when the batch was decrypted
    stored,    \* the batches the storage has: <<kind, report>>
    result     \* what SendWithRetry returned

deliveryVars == <<setting, database, pair, private, polled, stage, kind, report, body,
                  hash, status, agreed, stored, result>>

AgentKey    == AgentSetting(setting.agentKey, Empty, Empty)
AgentCrypto == AgentSetting(setting.agentCrypto, Empty, Empty)
ServerKey   == ServerSetting("key", setting.serverKey, Empty, Empty)
ServerCrypto == ServerSetting("crypto_key", setting.serverCrypto, Empty, Empty)

\* LoadPrivateKey, when the server starts.
Loaded == IF ServerCrypto = Empty THEN 0 ELSE pair

NotYet  == 99
Nothing == 98
NotSent == [gauge |-> NotYet, counter |-> NotYet]

Init ==
    /\ setting \in Settings
    /\ database \in BOOLEAN
    /\ pair = 1 /\ private = Loaded /\ polled = FALSE
    /\ stage = "agent" /\ kind = "gauge" /\ report = 1
    /\ body = <<>> /\ hash = <<>> /\ status = NotSent /\ agreed = FALSE
    /\ stored = {} /\ result = "none"

-----------------------------------------------------------------------------
(* The agent.                                                              *)

\* The layers: the compression, and the encryption for a version of the pair.
Gzip         == 0
Rsa(version) == version + 1

\* The hash is of the JSON text, before the layers.
\* Mutant of HashOf: of the text that is sent.
HashOfBody(layers) == IF AgentKey = Empty THEN <<>> ELSE <<AgentKey, layers>>
HashOf(layers)     == IF AgentKey = Empty THEN <<>> ELSE <<AgentKey, <<>>>>

\* The first poll.  (The counter is there from the start.)
Poll ==
    /\ ~polled /\ polled' = TRUE
    /\ UNCHANGED <<setting, database, pair, private, stage, kind, report, body,
                   hash, status, agreed, stored, result>>

HasRows == kind = "counter" \/ polled

\* SendMetricsBatch returns nil when the storage has no row of the kind.
NothingToSend ==
    /\ stage = "agent" /\ ~HasRows
    /\ status' = [status EXCEPT ![kind] = Nothing]
    /\ stage' = "answered"
    /\ UNCHANGED <<setting, database, pair, private, polled, kind, report, body,
                   hash, agreed, stored, result>>

\* SendMetricsBatch up to the request.
Build ==
    /\ stage = "agent" /\ HasRows
    /\ AgentCrypto # Empty => kind \in Fitting
    /\ body' = IF AgentCrypto = Empty THEN <<Gzip>> ELSE <<Gzip, Rsa(pair)>>
    /\ hash' = HashOf(body')
    /\ stage' = "decrypt"
    /\ UNCHANGED <<setting, database, pair, private, polled, kind, report, status,
                   agreed, stored, result>>

\* EncryptOAEP: the message is too long.
EncryptFails ==
    /\ stage = "agent" /\ HasRows /\ AgentCrypto # Empty /\ kind \notin Fitting
    /\ status' = [status EXCEPT ![kind] = 0]
    /\ stage' = "answered"
    /\ UNCHANGED <<setting, database, pair, private, polled, kind, report, body, hash,
                   agreed, stored, result>>

\* SendWithRetry: the gauges' error is kept, then the counters go; nil if
\* these arrived.  (No error here is temporary, so there is no retry.)
Receive ==
    /\ stage = "answered"
    /\ IF kind = "gauge"
       THEN kind' = "counter" /\ stage' = "agent" /\ UNCHANGED result
       ELSE /\ stage' = "end" /\ UNCHANGED kind
            /\ result' = IF status["counter"] = 200 THEN "nil" ELSE "error"
    /\ UNCHANGED <<setting, database, pair, private, polled, report, body, hash, status,
                   agreed, stored>>

NextReport ==
    /\ stage = "end" /\ report < MaxReports
    /\ report' = report + 1 /\ kind' = "gauge" /\ stage' = "agent"
    /\ status' = NotSent /\ result' = "none" /\ body' = <<>> /\ hash' = <<>>
    /\ UNCHANGED <<setting, database, pair, private, polled, agreed, stored>>

-----------------------------------------------------------------------------
(* The server.                                                             *)

Answer(code) ==
    /\ status' = [status EXCEPT ![kind] = code]
    /\ stage' = "answered"

\* Both sides use the same pair, or neither encrypts.
SameCrypto == IF Len(body) = 2 THEN Last(body) = Rsa(private) ELSE private = 0

\* DecryptMiddleware.  Without a key the body goes on as it is.
\* Mutant of Decrypt: a body that cannot be decrypted goes on as well.
DecryptLenient ==
    /\ stage = "decrypt"
    /\ agreed' = SameCrypto
    /\ body' = IF Last(body) = Rsa(private) THEN Front(body) ELSE body
    /\ stage' = "unzip"
    /\ UNCHANGED <<setting, database, pair, private, polled, kind, report, hash, status,
                   stored, result>>

Decrypt ==
    /\ stage = "decrypt"
    /\ agreed' = SameCrypto
    /\ IF private = 0 \/ Last(body) = Rsa(private)
       THEN /\ body' = IF private = 0 THEN body ELSE Front(body)
            /\ stage' = "unzip" /\ UNCHANGED status
       ELSE Answer(400) /\ UNCHANGED body
    /\ UNCHANGED <<setting, database, pair, private, polled, kind, report, hash, stored, result>>

\* Mutant of Unzip: a body that is not compressed goes on as it is.
UnzipLenient ==
    /\ stage = "unzip"
    /\ body' = IF Last(body) = Gzip THEN Front(body) ELSE body
    /\ stage' = "handler"
    /\ UNCHANGED <<setting, database, pair, private, polled, kind, report, status, hash,
                   agreed, stored, result>>

\* GzipMiddleware: the agent always says Content-Encoding: gzip.
Unzip ==
    /\ stage = "unzip"
    /\ IF Last(body) = Gzip
       THEN body' = Front(body) /\ stage' = "handler" /\ UNCHANGED status
       ELSE Answer(500) /\ UNCHANGED body
    /\ UNCHANGED <<setting, database, pair, private, polled, kind, report, hash, agreed,
                   stored, result>>

\* The check of the hash, in the database mode only.
HashRight ==
    database /\ ServerKey # Empty /\ hash # <<>> => hash = <<ServerKey, body>>

\* The batch handler decodes the JSON text and stores the metrics.
Handle ==
    /\ stage = "handler"
    /\ IF HashRight /\ body = <<>>
       THEN Answer(200) /\ stored' = stored \cup {<<kind, report>>}
       ELSE Answer(400) /\ UNCHANGED stored
    /\ UNCHANGED <<setting, database, pair, private, polled, kind, report, body, hash,
                   agreed, result>>

\* The operator replaces the pair of key files.
Rotate ==
    /\ pair <= MaxRotations
    /\ pair' = pair + 1
    /\ UNCHANGED <<setting, database, private, polled, stage, kind, report, body, hash,
                   status, agreed, stored, result>>

\* The server starts again, while it has no request.
RestartServer ==
    /\ stage \in {"agent", "decrypt", "answered", "end"}
    /\ private # Loaded
    /\ private' = Loaded
    /\ UNCHANGED <<setting, database, pair, polled, stage, kind, report, body, hash,
                   status, agreed, stored, result>>

Next ==
    \/ Poll \/ NothingToSend \/ Build \/ EncryptFails \/ Receive \/ NextReport
    \/ Decrypt \/ Unzip \/ Handle
    \/ Rotate \/ RestartServer

Spec == Init /\ [][Next]_deliveryVars

-----------------------------------------------------------------------------
(* Properties.                                                             *)

\* Every variable has its type; a body that reached the handler has no layer
\* left.
TypeOK ==
    /\ polled \in BOOLEAN
    /\ pair \in 1 .. MaxRotations + 1 /\ private \in 0 .. MaxRotations + 1
    /\ stage \in {"agent", "decrypt", "unzip", "handler", "answered", "end"}
    /\ kind \in {"gauge", "counter"} /\ report \in 1 .. MaxReports
    /\ \A k \in {"gauge", "counter"} : status[k] \in {NotYet, Nothing, 0, 200, 400, 500}
    /\ stage = "handler" => body = <<>>

\* The handler compares the hash: in the database mode, when there is one and
\* the server has a key to compute it with.
Compared == database /\ Empty \notin {AgentKey, ServerKey}

\* The agent has made a request of the batch, and it is over.
Delivered == stage = "answered" /\ status[kind] \notin {0, Nothing}

\* When both sides use the same pair of key files, or none, and a hash that is
\* compared was made with the server's key, the batch arrives: the server takes
\* off what the agent put on, in the opposite order, whatever keys were
\* replaced and wherever the server was started again (server.go:77, the
\* order of the middleware; send_functions.go:157).
AgreeingSidesDeliver ==
    Delivered /\ agreed /\ (Compared => AgentKey = ServerKey) =>
        status[kind] = 200 /\ <<kind, report>> \in stored

\* A difference that the server can see is refused, with nothing stored and an
\* error for the agent: a batch encrypted for another version of the pair or for
\* a server that has none, one not encrypted for a server that has a key, and in
\* the database mode one whose hash was made with another key (crypto.go:89,
\* gzip.go:101, handlers.go:281).  It sees none in a batch without a hash, nor in
\* the memory mode, whose handler looks at no hash: such a batch is stored.
SeenMismatchRejects ==
    Delivered /\ (~agreed \/ (Compared /\ AgentKey # ServerKey)) =>
        status[kind] # 200 /\ <<kind, report>> \notin stored

-----------------------------------------------------------------------------
(* What comments say and the code does not do.                             *)

\* send_functions.go:319: SendWithRetry returns nil after a successful
\* transmission: of the gauges, if there are any, and of the counters.
SuccessIsDelivery ==
    result = "nil" => \A k \in {"gauge", "counter"} :
                          status[k] = Nothing \/ <<k, report>> \in stored
=============================================================================
