------------------------------ MODULE EngineApi ------------------------------
(***************************************************************************)
(* The RPC module of BscEngineApi (node/engine_api/mod.rs): the methods it   *)
(* registers, and its engine_forkchoiceUpdatedV1 method as a function from  *)
(* the outcome of the engine service to the JSON-RPC response.              *)
(*                                                                         *)
(* A message built with format! is kept as the pair of its fixed prefix and *)
(* the text formatted into it, which is all that a reader of the message    *)
(* can tell apart.                                                          *)
(***************************************************************************)
EXTENDS Integers

CONSTANTS
    ValidationErrors,   \* texts of PayloadStatusEnum::Invalid { validation_error }
    EngineErrors        \* texts of the errors of engine.fork_choice_updated

\* PayloadStatusEnum, by the text its Display gives.
Statuses == {"VALID", "INVALID", "SYNCING", "ACCEPTED"}

\* What engine.fork_choice_updated returns.
EngineOk(status, validation_error) ==
    [ok |-> TRUE, status |-> status, validation_error |-> validation_error]
EngineErr(err) == [ok |-> FALSE, err |-> err]

\* What the method returns to the RPC client.
RpcOk(status) == [ok |-> TRUE, status |-> status]
RpcErr(code, prefix, detail) ==
    [ok |-> FALSE, code |-> code, message |-> [prefix |-> prefix, detail |-> detail]]

\* ForkchoiceUpdatedV1 that hands every status of the engine to the client.
ForkchoiceUpdatedV1PassingStatus(parsed, response) ==
    IF ~parsed THEN RpcErr(-32602, "Parse error", "params")
    ELSE IF ~response.ok
         THEN RpcErr(-32603, "Engine fork_choice_updated error", response.err)
    ELSE RpcOk(response.status)

\* The handler: parameters that do not parse are an invalid-params error, and
\* only a VALID status is a result; INVALID, any other status and an error of
\* the engine are internal errors whose message names what happened.
ForkchoiceUpdatedV1(parsed, response) ==
    IF ~parsed THEN RpcErr(-32602, "Parse error", "params")
    ELSE IF ~response.ok
         THEN RpcErr(-32603, "Engine fork_choice_updated error", response.err)
    ELSE IF response.status = "VALID" THEN RpcOk(response.status)
    ELSE IF response.status = "INVALID"
         THEN RpcErr(-32603, "Engine error", response.validation_error)
    ELSE RpcErr(-32603, "Engine status error", response.status)

\* into_rpc_module: the methods of the module.  The only one is compiled in
\* with the bench-test feature; a build without it serves an empty module.
IntoRpcModule(bench_test) ==
    IF bench_test THEN {"engine_forkchoiceUpdatedV1"} ELSE {}

\* The answer of a server with these methods to a call: a method that is not
\* registered is answered with the method-not-found error of JSON-RPC.
Call(methods, method, parsed, response) ==
    IF method \in methods THEN ForkchoiceUpdatedV1(parsed, response)
    ELSE RpcErr(-32601, "Method not found", method)

=============================================================================
