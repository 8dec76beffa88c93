---------------------------- MODULE ServicePorts ----------------------------
(***************************************************************************)
(* How clients reach a cluster: the ports of the client Service, the       *)
(* default user's Secret that advertises ports and credentials, the Erlang *)
(* cookie, and the listeners the server's ConfigMap asks for.  Four        *)
(* builders, written in different files, derive these from the same spec,  *)
(* one object per reconcile and from informer copies that may lag.         *)
(*                                                                         *)
(* A port is a protocol over tcp or tls.  Of an object the model keeps one *)
(* value (the type of the Service, the generated part of a Secret) and the *)
(* ports it names.                                                         *)
(***************************************************************************)
EXTENDS Integers

CONSTANTS
    Specs,       \* the specs a user may ask for
    Values,      \* what randomEncodedString may return
    NodePorts,   \* the node ports the API server has for each port
    MaxEdits,    \* bound on edits of the spec
    MaxFaults    \* bound on crashes and failed calls

VARIABLES
    spec,        \* the spec in the API server
    specView,    \* the informer's copy of it
    object,      \* the objects in the API server
    view,        \* the informers' copies of them
    queued,      \* is the cluster in the work queue?
    pc,          \* the builder whose turn it is in the running reconcile, or "idle"
    mem,         \* the spec it works with
    edits, faults

vars == <<spec, specView, object, view, queued, pc, mem, edits, faults>>

Protocol == {"amqp", "management", "prometheus", "mqtt", "web-mqtt", "stomp",
             "web-stomp", "stream"}
Port == Protocol \X {"tcp", "tls"}

\* The plugins that have ports.
Plugin == {"mqtt", "web_mqtt", "stomp", "web_stomp", "stream", "stream_management",
           "multi_dc_replication"}

\* tls: none, by a Secret without or with a CA ("mutual"), or by Vault.  noUser: the
\* default user comes from Vault or from a Secret of the user's.
ClusterSpec == [tls : {"off", "secret", "mutual", "vault"}, disableNonTls : BOOLEAN,
                plugins : SUBSET Plugin, type : {"", "ClusterIP", "NodePort", "LoadBalancer"},
                noUser : BOOLEAN]

ASSUME PortsAssumption ==
    /\ Specs \subseteq ClusterSpec /\ Specs # {}
    /\ Values # {} /\ "absent" \notin Values
    /\ NodePorts \subseteq Nat \ {0} /\ NodePorts # {}
    /\ MaxEdits \in Nat /\ MaxFaults \in Nat

-----------------------------------------------------------------------------
(***************************************************************************)
(* The spec, as the builders ask about it.                                 *)
(***************************************************************************)
SecretTLSEnabled(s) == s.tls \in {"secret", "mutual"}
TLSEnabled(s) == SecretTLSEnabled(s) \/ s.tls = "vault"
MutualTLSEnabled(s) == s.tls \in {"mutual", "vault"}
AdditionalPluginEnabled(s, plugin) == plugin \in s.plugins

(***************************************************************************)
(* PortManager: the ports of the client Service.                           *)
(***************************************************************************)
\* The plain port unless it is disabled, and the TLS port if there is TLS.
Exposed(s, protocol, tls) ==
    {<<protocol, t>> : t \in {t \in {"tcp", "tls"} :
        (t = "tcp" /\ ~s.disableNonTls) \/ (t = "tls" /\ tls)}}

clientAmqpPorts(s) == Exposed(s, "amqp", TLSEnabled(s))
clientHttpPorts(s) == Exposed(s, "management", TLSEnabled(s))

clientMqttPorts(s) ==
    IF "mqtt" \in s.plugins THEN Exposed(s, "mqtt", TLSEnabled(s)) ELSE {}

clientWebMqttPorts(s) ==
    IF "web_mqtt" \in s.plugins THEN Exposed(s, "web-mqtt", MutualTLSEnabled(s)) ELSE {}

clientStompPorts(s) ==
    IF "stomp" \in s.plugins THEN Exposed(s, "stomp", TLSEnabled(s)) ELSE {}

clientWebStompPorts(s) ==
    IF "web_stomp" \in s.plugins THEN Exposed(s, "web-stomp", MutualTLSEnabled(s)) ELSE {}

StreamNeeded(s) == s.plugins \cap {"stream", "stream_management", "multi_dc_replication"} # {}

clientStreamPorts(s) ==
    IF StreamNeeded(s) THEN Exposed(s, "stream", TLSEnabled(s)) ELSE {}

clientPrometheusPorts(s) == {<<"prometheus", IF TLSEnabled(s) THEN "tls" ELSE "tcp">>}

ClientServicePorts(s) ==
    clientAmqpPorts(s) \cup clientHttpPorts(s) \cup clientMqttPorts(s)
    \cup clientWebMqttPorts(s) \cup clientStompPorts(s) \cup clientWebStompPorts(s)
    \cup clientStreamPorts(s) \cup clientPrometheusPorts(s)

(***************************************************************************)
(* What the default user's Secret advertises, and what the broker listens  *)
(* on with the configuration it is given.                                  *)
(***************************************************************************)
\* The plugins whose port the Secret names, and their protocols.
portNames == {<<"mqtt", "mqtt">>, <<"stomp", "stomp">>, <<"stream", "stream">>,
              <<"web_mqtt", "web-mqtt">>, <<"web_stomp", "web-stomp">>}

updatePorts(s) ==
    LET t == IF SecretTLSEnabled(s) THEN "tls" ELSE "tcp" IN
    {<<"amqp", t>>} \cup
    {<<n[2], t>> : n \in {n \in portNames : AdditionalPluginEnabled(s, n[1])}}

\* Plain listeners are on by default, those of a plugin when it is enabled; the
\* configuration turns them off.
plainListener(s, q) ==
    LET off == TLSEnabled(s) /\ s.disableNonTls
        webOff == MutualTLSEnabled(s) /\ s.disableNonTls
    IN  CASE q \in {"amqp", "management", "prometheus"} -> ~off
          [] q \in {"mqtt", "stomp"} -> q \in s.plugins /\ ~off
          [] q = "stream" -> StreamNeeded(s) /\ ~(off /\ "stream" \in s.plugins)
          [] q = "web-mqtt" -> "web_mqtt" \in s.plugins /\ ~webOff
          [] q = "web-stomp" -> "web_stomp" \in s.plugins /\ ~webOff

\* TLS listeners are those it turns on.
tlsListener(s, q) ==
    CASE q \in {"amqp", "management", "prometheus"} -> TLSEnabled(s)
      [] q \in {"mqtt", "stomp", "stream"} -> TLSEnabled(s) /\ q \in s.plugins
      [] q = "web-mqtt" -> MutualTLSEnabled(s) /\ "web_mqtt" \in s.plugins
      [] q = "web-stomp" -> MutualTLSEnabled(s) /\ "web_stomp" \in s.plugins

listeners(s) ==
    {<<q, "tcp">> : q \in {q \in Protocol : plainListener(s, q)}}
    \cup {<<q, "tls">> : q \in {q \in Protocol : tlsListener(s, q)}}

\* The specs for which the three agree.  The Secret names the TLS ports of the web
\* plugins also without a CA, and plain ports under Vault; a stream listener for TLS
\* is configured only for the stream plugin itself.
Consistent(s) ==
    /\ s.plugins \cap {"web_mqtt", "web_stomp"} # {} => s.tls # "secret"
    /\ s.disableNonTls => s.tls # "vault"
    /\ StreamNeeded(s) /\ TLSEnabled(s) => "stream" \in s.plugins

-----------------------------------------------------------------------------
(***************************************************************************)
(* Objects.  ports[p] is a node port, 0 for none, or NotNamed.             *)
(***************************************************************************)
Kind == {"service", "cookie", "user", "conf"}
ServiceType == {"ClusterIP", "NodePort", "LoadBalancer"}
NotNamed == -1
PortMap == [Port -> NodePorts \cup {0, NotNamed}]
Object == [val : Values \cup ServiceType \cup {"absent", "conf"}, ports : PortMap]

Naming(ports) == [p \in Port |-> IF p \in ports THEN 0 ELSE NotNamed]
Named(o) == {p \in Port : o.ports[p] # NotNamed}
Absent == [val |-> "absent", ports |-> Naming({})]

\* Stands in mem for nothing.
AnySpec == CHOOSE s \in Specs : TRUE

Init ==
    /\ spec \in Specs /\ specView = spec /\ mem = AnySpec
    /\ object = [k \in Kind |-> Absent] /\ view = object
    /\ queued = TRUE /\ pc = "idle"
    /\ edits = MaxEdits /\ faults = MaxFaults

\* Variant: takes the ports over as they are wanted now.
mergePorts_replace(curr, next) ==
    [p \in Port |-> CASE p \notin next -> NotNamed
                      [] p \in next /\ curr[p] = NotNamed -> 0
                      [] OTHER -> curr[p]]

\* Wanted ports are added; the ones that are there stay, wanted or not.
mergePorts(curr, next) ==
    [p \in Port |-> IF curr[p] = NotNamed /\ p \in next THEN 0 ELSE curr[p]]

\* Variant: leaves an empty type to the API server.
serviceType_unset(s) == s.type

serviceType(s) == IF s.type = "" THEN "ClusterIP" ELSE s.type

\* Variant: node ports are kept whatever the type.
UpdateService_keeps(s, o) ==
    [val |-> serviceType(s), ports |-> mergePorts(o.ports, ClientServicePorts(s))]

\* A ClusterIP Service has no node ports.
UpdateService(s, o) ==
    LET ports == mergePorts(o.ports, ClientServicePorts(s)) IN
    [val |-> serviceType(s),
     ports |-> [p \in Port |-> IF serviceType(s) = "ClusterIP" /\ ports[p] # NotNamed
                               THEN 0 ELSE ports[p]]]

\* Build: v is the string it generates, in every reconcile anew.
Build(k, v) == IF k \in {"cookie", "user"} THEN [Absent EXCEPT !.val = v] ELSE Absent

\* Variant: keeps what Build generated for a Secret that was found.
Update_built(k, s, o, v) ==
    CASE k = "service" -> UpdateService(s, o)
      [] k = "cookie"  -> o
      [] k = "user"    -> [val |-> v, ports |-> Naming(updatePorts(s))]
      [] k = "conf"    -> [val |-> "conf", ports |-> Naming(listeners(s))]

\* What each builder makes of the object that was found, or built.
Update(k, s, o, v) ==
    CASE k = "service" -> UpdateService(s, o)
      [] k = "cookie"  -> o
      [] k = "user"    -> [o EXCEPT !.ports = Naming(updatePorts(s))]
      [] k = "conf"    -> [val |-> "conf", ports |-> Naming(listeners(s))]

\* The API server completes a Service that needs node ports, and refuses node ports
\* in one that does not.
Valid(k, o) == k = "service" /\ o.val = "ClusterIP" => \A p \in Port : o.ports[p] <= 0
Completed(k, o, n) ==
    IF k = "service" /\ o.val # "ClusterIP"
    THEN [o EXCEPT !.ports = [p \in Port |-> IF @[p] = 0 THEN n ELSE @[p]]]
    ELSE o

\* Variant: the Secret before the Service.
After_secretFirst(k, s) ==
    CASE k = "idle"    -> IF s.noUser THEN "service" ELSE "user"
      [] k = "user"    -> "service"
      [] k = "service" -> "cookie"
      [] k = "cookie"  -> "conf"
      [] k = "conf"    -> "idle"

\* Variant: takes one builder too many out of the list with the user's Secret.
After_dropsTwo(k, s) ==
    CASE k = "idle"    -> "service"
      [] k = "service" -> "cookie"
      [] k = "cookie"  -> IF s.noUser THEN "idle" ELSE "user"
      [] k = "user"    -> "conf"
      [] k = "conf"    -> "idle"

\* The order of ResourceBuilders, which leaves the user's Secret out if it is not needed.
After(k, s) ==
    CASE k = "idle"    -> "service"
      [] k = "service" -> "cookie"
      [] k = "cookie"  -> IF s.noUser THEN "conf" ELSE "user"
      [] k = "user"    -> "conf"
      [] k = "conf"    -> "idle"

-----------------------------------------------------------------------------
Fault == faults > 0 /\ faults' = faults - 1

\* The reconcile ends early, after a write (Done) or with an error: either puts the
\* cluster back into the work queue.
Requeue == pc' = "idle" /\ mem' = AnySpec /\ queued' = TRUE

\* Non-TLS listeners cannot be disabled without TLS.
Refused(s) == s.disableNonTls /\ ~TLSEnabled(s)

\* A reconcile of a spec that is refused changes nothing and is repeated, until the
\* spec is edited.
getRabbitmqCluster ==
    /\ pc = "idle" /\ queued
    /\ ~Refused(specView)
    /\ queued' = FALSE
    /\ pc' = After("idle", specView) /\ mem' = specView
    /\ UNCHANGED <<spec, specView, object, view, edits, faults>>

\* Nothing to write: the next builder's turn.
unchanged(k) ==
    /\ pc = k /\ view[k] # Absent
    /\ \E v \in Values : Update(k, mem, view[k], v) = view[k]
    /\ pc' = After(k, mem)
    /\ mem' = IF k = "conf" THEN AnySpec ELSE mem
    /\ UNCHANGED <<spec, specView, object, view, queued, edits, faults>>

\* Variant: writes without regard to the version it has read.
CreateOrUpdate_blind(k) ==
    /\ pc = k
    /\ \E v \in Values, n \in NodePorts :
         LET found == IF view[k] = Absent THEN Build(k, v) ELSE view[k]
             new == Update(k, mem, found, v) IN
         /\ new # view[k]
         /\ object' = [object EXCEPT ![k] = Completed(k, new, n)]
    /\ Requeue
    /\ UNCHANGED <<spec, specView, view, edits, faults>>

\* CreateOrUpdate writes, and the reconcile ends.  The write is refused if the copy is
\* not what the API server has (the object exists already, or has changed); that
\* RetryOnConflict tries again meanwhile changes nothing before it is accepted.
CreateOrUpdate(k) ==
    /\ pc = k
    /\ \E v \in Values, n \in NodePorts :
         LET found == IF view[k] = Absent THEN Build(k, v) ELSE view[k]
             new == Update(k, mem, found, v) IN
         /\ new # view[k]
         /\ IF view[k] = object[k] /\ Valid(k, new)
            THEN object' = [object EXCEPT ![k] = Completed(k, new, n)]
            ELSE UNCHANGED object
    /\ Requeue
    /\ UNCHANGED <<spec, specView, view, edits, faults>>

callFails(k) ==
    /\ pc = k /\ Fault
    /\ Requeue
    /\ UNCHANGED <<spec, specView, object, view, edits>>

OperatorStep ==
    getRabbitmqCluster \/ \E k \in Kind : unchanged(k) \/ CreateOrUpdate(k)

(***************************************************************************)
(* The environment.                                                        *)
(***************************************************************************)
UserEdits ==
    /\ edits > 0 /\ edits' = edits - 1
    /\ spec' \in Specs \ {spec}
    /\ UNCHANGED <<specView, object, view, queued, pc, mem, faults>>

specSync ==
    /\ specView # spec
    /\ specView' = spec /\ queued' = TRUE
    /\ UNCHANGED <<spec, object, view, pc, mem, edits, faults>>

objectSync(k) ==
    /\ view[k] # object[k]
    /\ view' = [view EXCEPT ![k] = object[k]] /\ queued' = TRUE
    /\ UNCHANGED <<spec, specView, object, pc, mem, edits, faults>>

\* The successor of an operator that died lists everything afresh.
Crash ==
    /\ Fault
    /\ Requeue
    /\ specView' = spec /\ view' = object
    /\ UNCHANGED <<spec, object, edits>>

Next ==
    \/ OperatorStep \/ (\E k \in Kind : callFails(k)) \/ Crash
    \/ UserEdits \/ specSync \/ (\E k \in Kind : objectSync(k))

Spec == Init /\ [][Next]_vars

\* The operator runs and watch events arrive.
FairSpec ==
    /\ Spec
    /\ WF_vars(OperatorStep) /\ WF_vars(specSync)
    /\ \A k \in Kind : WF_vars(objectSync(k))

-----------------------------------------------------------------------------
(***************************************************************************)
(* Properties.                                                             *)
(***************************************************************************)
ValueOf(k) == CASE k = "service" -> ServiceType
                [] k \in {"cookie", "user"} -> Values
                [] k = "conf" -> {"conf"}

\* Every variable keeps its type; an object of each kind has a value of its own kind.
TypeOK ==
    /\ spec \in Specs /\ specView \in Specs /\ mem \in Specs
    /\ object \in [Kind -> Object] /\ view \in [Kind -> Object]
    /\ \A k \in Kind : object[k] = Absent \/ object[k].val \in ValueOf(k)
    /\ \A k \in Kind : view[k] = Absent \/ view[k].val \in ValueOf(k)
    /\ queued \in BOOLEAN /\ pc \in Kind \cup {"idle"}
    /\ edits \in 0..MaxEdits /\ faults \in 0..MaxFaults

\* Whatever port the default user's Secret advertises, the Service exposes, at any
\* time during a change of plugins or TLS settings and from whatever stale copy
\* either was written.
AdvertisedServed == Named(object["user"]) \subseteq Named(object["service"])

\* A Service that has node ports keeps the ones of the ports that the reconciled spec
\* still asks for, while its type needs some: no write from a stale copy, and no change
\* of type, plugins or TLS settings, gives clients of such a port another one.  Nothing
\* is asked of a port that is no longer wanted.
NodePortsStable ==
    [][/\ object["service"].val \in {"NodePort", "LoadBalancer"}
       /\ object'["service"].val \in {"NodePort", "LoadBalancer"}
       => \A p \in Port :
            p \in ClientServicePorts(mem) /\ object["service"].ports[p] # NotNamed =>
              object'["service"].ports[p] = object["service"].ports[p]]_vars

\* Credentials and Erlang cookie are generated in every reconcile, but the ones in use
\* are never replaced.
SecretsStable ==
    [][\A k \in {"cookie", "user"} :
         object[k] # Absent => object'[k].val = object[k].val]_vars

Quiet ==
    /\ pc = "idle" /\ specView = spec /\ view = object
    /\ queued => Refused(spec)

\* When nothing is left to do, the Service exposes every port of the plugins and
\* protocols asked for, the broker is told to listen on each of them, and on no plain
\* one if those are disabled, and the Secret advertises what clients can use.
QuietMeansServed ==
    Quiet /\ ~Refused(spec) =>
        /\ ClientServicePorts(spec) \subseteq Named(object["service"])
        /\ ClientServicePorts(spec) \subseteq Named(object["conf"])
        /\ spec.disableNonTls => \A p \in Named(object["conf"]) : p[2] = "tls"
        /\ ~spec.noUser => /\ object["user"] # Absent
                           /\ Named(object["user"]) \subseteq Named(object["conf"])
        /\ object["cookie"] # Absent

\* The builders agree with the API server in the end: no write is repeated for ever.
EventuallyQuiet == <>[]Quiet

\* The Service exposes one of the two Prometheus ports, not both.
OnePrometheusPort ==
    ~({<<"prometheus", "tcp">>, <<"prometheus", "tls">>} \subseteq Named(object["service"]))

-----------------------------------------------------------------------------
(***************************************************************************)
(* The inductive invariant behind AdvertisedServed and NodePortsStable.    *)
(***************************************************************************)
\* A copy of the Service never shows a port it has lost; when it is the Secret's turn,
\* the Service has the ports of the spec the reconcile works with.
ServedInv ==
    /\ Named(view["service"]) \subseteq Named(object["service"])
    /\ pc # "idle" => ~Refused(mem)
    /\ pc \in {"cookie", "user"} => ClientServicePorts(mem) \subseteq Named(object["service"])

\* A Service whose type needs node ports has one for each of its ports.
NodePortInv ==
    object["service"].val \in {"NodePort", "LoadBalancer"} =>
        \A p \in Port : object["service"].ports[p] # 0

\* The copies and the objects agree as the parts say.
IndInv == TypeOK /\ ServedInv /\ NodePortInv /\ AdvertisedServed

=============================================================================
