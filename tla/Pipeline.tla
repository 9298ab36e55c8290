------------------------------ MODULE Pipeline ------------------------------
(***************************************************************************)
(* What becomes of the outcome of a guard, a pipe or a handler on its way  *)
(* to the client: main.ts installs, outside in, the SentryInterceptor, the *)
(* ResponseTransformInterceptor and the BodyValidationPipe, and an         *)
(* exception filter for HttpExceptions alone.  Guards run before the       *)
(* interceptors, so what a guard throws passes the filter only.            *)
(* Definitions headed "Faulty variant" are not part of the model.          *)
(***************************************************************************)
EXTENDS Integers

CONSTANT None   \* undefined

(* ErrorCode; its ValidationFailed is never used.                           *)
NoError == 0
Default == 1

(* A value, an HttpException ("refusal"), or any other error ("fault").     *)
Outcome(kind, status, code, message) ==
  [kind |-> kind, status |-> status, code |-> code, message |-> message]
Value                          == Outcome("value", 201, None, None)
Refusal(status, code, message) == Outcome("refusal", status, code, message)
Fault                          == Outcome("fault", None, None, None)

(* The exceptionFactory: its errorCode is not the code the filter reads.    *)
BodyValidation == Refusal(400, None, "ValidationErrors")

(* Faulty variant: HttpExceptions are not told apart.                       *)
SentryReportsAll(o) ==
  IF o.kind # "value" THEN Refusal(500, None, "Sorry") ELSE o

SentryInterceptor(o) ==
  IF o.kind = "fault" THEN Refusal(500, None, "Sorry") ELSE o

ResponseTransformInterceptor(o) ==
  IF o.kind = "value" THEN [o EXCEPT !.code = NoError] ELSE o

Or(x, default) == IF x = None THEN default ELSE x

(* Faulty variant: no default for an exception without a message.           *)
FilterPassesNone(o) == IF o.kind = "refusal" THEN [o EXCEPT !.code = Or(@, Default)] ELSE o

(* An exception made of {key: ...} has no message: clients read 'Unknown'.  *)
HttpExceptionFilter(o) ==
  IF o.kind = "refusal"
  THEN [o EXCEPT !.code = Or(@, Default), !.message = Or(@, "Unknown")]
  ELSE o

(* What Nest answers to an error no filter caught.                          *)
ExceptionsHandler(o) ==
  IF o.kind = "fault" THEN Outcome("fault", 500, None, "InternalServerError") ELSE o

Respond(phase, o) ==
  LET out == IF phase = "guard" THEN o
             ELSE SentryInterceptor(ResponseTransformInterceptor(o))
      sent == ExceptionsHandler(HttpExceptionFilter(out))
  IN [status |-> sent.status, code |-> sent.code, message |-> sent.message,
      reported |-> phase # "guard" /\ SentryInterceptor(o) # o]
=============================================================================
