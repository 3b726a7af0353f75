----------------------------- MODULE MCAPIClient -----------------------------
(* Instances of APIClient for TLC. *)
EXTENDS APIClient

\* One status of each sort: success, client error, rate limit, two server errors of
\* which the second is not worth a retry.
MCStatusCodes == {200, 404, 429, 503, 501}
MCRetryAfters == {NoHeader, -3, 0, 2}
================================================================================
