--------------------------- MODULE MCUpdatePipeline ---------------------------
(* Instances of UpdatePipeline for TLC: what one receive can deliver.        *)
EXTENDS UpdatePipelineTurboInv

\* A client without the TurboVNC extensions. A batch never holds a request after
\* a message that waits for the event loop (see the README).
PlainBatches == {<<"req">>, <<"full">>, <<"pixFmt", "req">>, <<"setEnc", "full">>,
                 <<"req", "cut">>, <<"cut">>, <<"full", "input", "req">>, <<"bad", "cut">>}

\* The same client with fewer kinds of batch, for the liveness properties.
FewBatches == {<<"full">>, <<"req", "cut">>, <<"pixFmt", "req">>}

\* A TurboVNC client.
TurboBatches == {<<"setEncTurbo">>, <<"setEncFence", "full">>, <<"full">>, <<"contOn">>,
                 <<"contOff", "full">>, <<"cut", "contOff">>, <<"fence", "contOn">>,
                 <<"fenceNoReq">>, <<"setEnc", "req">>}

\* A TurboVNC client that turns continuous updates off.
OffBatches == {<<"contOff">>}

=============================================================================
