--------------------------- MODULE MCServicePorts ---------------------------
(***************************************************************************)
(* Instances of ServicePorts for TLC.                                      *)
(***************************************************************************)
EXTENDS ServicePorts

Basic == [tls |-> "off", disableNonTls |-> FALSE, plugins |-> {}, type |-> "NodePort",
          noUser |-> FALSE]

\* Without TLS, refused, with TLS by Secret and by Vault: between them every plugin,
\* every type of Service and a cluster without a default user's Secret.  A Secret
\* without a CA differs from one with a CA only for the web plugins, where the
\* builders disagree.
SampleSpecs ==
    {[Basic EXCEPT !.plugins = {"mqtt", "stream_management"}],
     [Basic EXCEPT !.disableNonTls = TRUE],
     [Basic EXCEPT !.tls = "mutual", !.plugins = {"mqtt", "web_mqtt", "stomp", "stream"},
                   !.type = "", !.disableNonTls = TRUE],
     [Basic EXCEPT !.tls = "vault", !.noUser = TRUE, !.type = "LoadBalancer",
                   !.plugins = {"web_stomp", "stream", "multi_dc_replication"}]}

ASSUME \A s \in SampleSpecs : Consistent(s)

\* All specs over some plugin sets, also those for which the builders disagree.
AllSpecs ==
    [tls : {"off", "secret", "mutual", "vault"}, disableNonTls : BOOLEAN,
     plugins : {{}, {"mqtt", "web_mqtt"}, {"stream_management"}},
     type : {"", "NodePort"}, noUser : BOOLEAN]
=============================================================================
