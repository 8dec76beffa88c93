------------------------ MODULE ServicePorts_proofs -------------------------
(***************************************************************************)
(* The ports the default user's Secret advertises are exposed, node ports  *)
(* and generated values are kept: proofs for any set of specs, any number  *)
(* of edits and faults, and any lag of the informers; and when nothing is  *)
(* left to do, what is exposed, advertised and listened on agrees.         *)
(***************************************************************************)
EXTENDS ServicePorts, TLAPS

-----------------------------------------------------------------------------
(***************************************************************************)
(* What the three port lists say of the same spec.                         *)
(***************************************************************************)
\* Membership in the ports of one protocol.
LEMMA InExposed ==
    ASSUME NEW s, NEW q, NEW tls, NEW t
    PROVE  <<q, t>> \in Exposed(s, q, tls)
             <=> (t = "tcp" /\ ~s.disableNonTls) \/ (t = "tls" /\ tls)
BY DEF Exposed

\* The port of every plugin the Secret advertises is one of the Service's.
LEMMA AdvertisedIsExposed ==
    ASSUME NEW s \in ClusterSpec, Consistent(s), ~Refused(s)
    PROVE  updatePorts(s) \subseteq ClientServicePorts(s)
<1> DEFINE t == IF SecretTLSEnabled(s) THEN "tls" ELSE "tcp"
<1>1. SecretTLSEnabled(s) => TLSEnabled(s)
  BY DEF TLSEnabled
<1>2. ~SecretTLSEnabled(s) => ~s.disableNonTls
  BY DEF Consistent, Refused, TLSEnabled, SecretTLSEnabled, ClusterSpec
<1>3. \A q : <<q, t>> \in Exposed(s, q, TLSEnabled(s))
  BY <1>1, <1>2, InExposed
<1>4. ASSUME NEW q, s.plugins \cap {"web_mqtt", "web_stomp"} # {}
      PROVE  <<q, t>> \in Exposed(s, q, MutualTLSEnabled(s))
  <2>1. SecretTLSEnabled(s) => MutualTLSEnabled(s)
    BY <1>4 DEF Consistent, SecretTLSEnabled, MutualTLSEnabled
  <2>2. QED
    BY <2>1, <1>2, InExposed
<1>5. <<"amqp", t>> \in ClientServicePorts(s)
  BY <1>3 DEF ClientServicePorts, clientAmqpPorts
<1>6. "mqtt" \in s.plugins => <<"mqtt", t>> \in ClientServicePorts(s)
  BY <1>3 DEF ClientServicePorts, clientMqttPorts
<1>7. "stomp" \in s.plugins => <<"stomp", t>> \in ClientServicePorts(s)
  BY <1>3 DEF ClientServicePorts, clientStompPorts
<1>8. "stream" \in s.plugins => <<"stream", t>> \in ClientServicePorts(s)
  BY <1>3 DEF ClientServicePorts, clientStreamPorts, StreamNeeded
<1>9. "web_mqtt" \in s.plugins => <<"web-mqtt", t>> \in ClientServicePorts(s)
  BY <1>4 DEF ClientServicePorts, clientWebMqttPorts
<1>10. "web_stomp" \in s.plugins => <<"web-stomp", t>> \in ClientServicePorts(s)
  BY <1>4 DEF ClientServicePorts, clientWebStompPorts
<1>11. QED
  BY <1>5, <1>6, <1>7, <1>8, <1>9, <1>10
     DEF updatePorts, portNames, AdditionalPluginEnabled

\* The Service's ports are ports.
LEMMA ExposedArePorts ==
    ASSUME NEW s PROVE ClientServicePorts(s) \subseteq Port
<1>1. \A q \in Protocol : \A tls : Exposed(s, q, tls) \subseteq Port
  BY DEF Exposed, Port
<1>2. QED
  BY <1>1 DEF ClientServicePorts, clientAmqpPorts, clientHttpPorts, clientMqttPorts,
              clientWebMqttPorts, clientStompPorts, clientWebStompPorts,
              clientStreamPorts, clientPrometheusPorts, Protocol, Port

\* Every port of the Service has a listener: ports.go and configmap.go, which derive
\* them separately, agree on every consistent spec that is not refused.
THEOREM ExposedIsListenedTo ==
    ASSUME NEW s \in ClusterSpec, Consistent(s), ~Refused(s)
    PROVE  ClientServicePorts(s) \subseteq listeners(s)
<1>1. s.disableNonTls => TLSEnabled(s)
  BY DEF Refused
<1>2. ASSUME NEW q \in Protocol, NEW tls,
             ~s.disableNonTls => plainListener(s, q), tls => tlsListener(s, q)
      PROVE  Exposed(s, q, tls) \subseteq listeners(s)
  BY <1>2 DEF Exposed, listeners
<1>3. ASSUME NEW q \in {"amqp", "management", "prometheus"}
      PROVE  (~s.disableNonTls => plainListener(s, q)) /\ (TLSEnabled(s) => tlsListener(s, q))
  BY <1>3 DEF plainListener, tlsListener
<1>4. clientAmqpPorts(s) \subseteq listeners(s) /\ clientHttpPorts(s) \subseteq listeners(s)
  BY <1>2, <1>3 DEF clientAmqpPorts, clientHttpPorts, Protocol
<1>5. clientPrometheusPorts(s) \subseteq listeners(s)
  BY <1>1, <1>3 DEF clientPrometheusPorts, listeners, Protocol
<1>6. clientMqttPorts(s) \subseteq listeners(s)
  BY <1>2 DEF clientMqttPorts, plainListener, tlsListener, Protocol
<1>7. clientStompPorts(s) \subseteq listeners(s)
  BY <1>2 DEF clientStompPorts, plainListener, tlsListener, Protocol
<1>8. clientStreamPorts(s) \subseteq listeners(s)
  BY <1>2 DEF clientStreamPorts, plainListener, tlsListener, Protocol, Consistent
<1>9. clientWebMqttPorts(s) \subseteq listeners(s)
  BY <1>2 DEF clientWebMqttPorts, plainListener, tlsListener, Protocol
<1>10. clientWebStompPorts(s) \subseteq listeners(s)
  BY <1>2 DEF clientWebStompPorts, plainListener, tlsListener, Protocol
<1>11. QED
  BY <1>4, <1>5, <1>6, <1>7, <1>8, <1>9, <1>10 DEF ClientServicePorts

-----------------------------------------------------------------------------
(***************************************************************************)
(* What the builders make of an object.                                    *)
(***************************************************************************)
\* An object that names ports names ports of the right type.
LEMMA NamingType ==
    ASSUME NEW ports PROVE Naming(ports) \in PortMap
BY DEF Naming, PortMap

LEMMA AbsentType == Absent \in Object /\ Absent.val = "absent"
BY NamingType DEF Absent, Object

\* Merging keeps what is there and names what is wanted.
LEMMA MergeFacts ==
    ASSUME NEW curr \in PortMap, NEW next
    PROVE  /\ mergePorts(curr, next) \in PortMap
           /\ \A p \in Port : /\ curr[p] # NotNamed => mergePorts(curr, next)[p] = curr[p]
                              /\ p \in next => mergePorts(curr, next)[p] # NotNamed
BY DEF mergePorts, PortMap, NotNamed

\* The Service a builder asks for: its type, and the ports that were there and those
\* that are wanted, with their node ports unless it is a ClusterIP.
LEMMA ServiceFacts ==
    ASSUME NEW s \in ClusterSpec, NEW o \in Object
    PROVE  LET u == UpdateService(s, o) IN
           /\ u \in Object /\ u.val \in ServiceType
           /\ \A p \in Port : /\ o.ports[p] # NotNamed => u.ports[p] # NotNamed
                              /\ p \in ClientServicePorts(s) => u.ports[p] # NotNamed
           /\ u.val # "ClusterIP" =>
                \A p \in Port : o.ports[p] # NotNamed => u.ports[p] = o.ports[p]
<1> DEFINE m == mergePorts(o.ports, ClientServicePorts(s))
<1> DEFINE u == UpdateService(s, o)
<1>1. o.ports \in PortMap
  BY DEF Object
<1>2. /\ m \in PortMap
      /\ \A p \in Port : /\ o.ports[p] # NotNamed => m[p] = o.ports[p]
                         /\ p \in ClientServicePorts(s) => m[p] # NotNamed
  BY <1>1, MergeFacts
<1>3. serviceType(s) \in ServiceType
  BY DEF serviceType, ServiceType, ClusterSpec
<1>4. u.val = serviceType(s)
      /\ u = [val |-> serviceType(s), ports |-> u.ports]
      /\ u.ports = [p \in Port |-> IF serviceType(s) = "ClusterIP" /\ m[p] # NotNamed
                                   THEN 0 ELSE m[p]]
  BY DEF UpdateService
<1> HIDE DEF m, u
<1>5. u.ports \in PortMap
  BY <1>2, <1>4 DEF PortMap
<1>6. u \in Object
  BY <1>3, <1>4, <1>5 DEF Object
<1>7. \A p \in Port : m[p] # NotNamed => u.ports[p] # NotNamed
  BY <1>4 DEF NotNamed
<1>8. QED
  BY <1>2, <1>3, <1>4, <1>6, <1>7 DEF u

\* What the API server adds to a Service: node ports where there are none.
LEMMA CompletedFacts ==
    ASSUME NEW k \in Kind, NEW o \in Object, NEW n \in NodePorts
    PROVE  LET c == Completed(k, o, n) IN
           /\ c \in Object /\ c.val = o.val /\ Named(c) = Named(o)
           /\ \A p \in Port : o.ports[p] # 0 => c.ports[p] = o.ports[p]
           /\ k # "service" => c = o
           /\ k = "service" /\ o.val # "ClusterIP" => \A p \in Port : c.ports[p] # 0
<1> DEFINE f == [p \in Port |-> IF o.ports[p] = 0 THEN n ELSE o.ports[p]]
<1>1. n # 0 /\ n # NotNamed
  BY PortsAssumption DEF NotNamed
<1>2. CASE k = "service" /\ o.val # "ClusterIP"
  <2>1. Completed(k, o, n) = [o EXCEPT !.ports = f]
    BY <1>2 DEF Completed
  <2>2. f \in PortMap
    BY DEF PortMap, Object
  <2>3. [o EXCEPT !.ports = f] = [val |-> o.val, ports |-> f]
    BY DEF Object
  <2>4. Named([val |-> o.val, ports |-> f]) = Named(o)
    BY <1>1 DEF Named, NotNamed
  <2>5. [val |-> o.val, ports |-> f] \in Object
    BY <2>2 DEF Object
  <2>6. \A p \in Port : f[p] # 0 /\ (o.ports[p] # 0 => f[p] = o.ports[p])
    BY <1>1
  <2> HIDE DEF f
  <2>7. QED
    BY <1>2, <2>1, <2>3, <2>4, <2>5, <2>6
<1>3. CASE ~(k = "service" /\ o.val # "ClusterIP")
  BY <1>3 DEF Completed
<1>4. QED
  BY <1>2, <1>3

\* An update keeps the type of its object, and the generated value of a Secret.
LEMMA UpdateFacts ==
    ASSUME NEW k \in Kind, NEW s \in ClusterSpec, NEW o \in Object, NEW v,
           o = Absent \/ o.val \in ValueOf(k), k \in {"cookie", "user"} => o # Absent
    PROVE  /\ Update(k, s, o, v) \in Object /\ Update(k, s, o, v).val \in ValueOf(k)
           /\ k = "service" => Update(k, s, o, v) = UpdateService(s, o)
           /\ k \in {"cookie", "user"} => Update(k, s, o, v).val = o.val
           /\ k = "user" => Named(Update(k, s, o, v)) \subseteq updatePorts(s)
<1>1. CASE k = "service"
  BY <1>1, ServiceFacts DEF Update, ValueOf
<1>2. CASE k = "cookie"
  BY <1>2 DEF Update
<1>3. CASE k = "user"
  <2>1. Update(k, s, o, v) = [val |-> o.val, ports |-> Naming(updatePorts(s))]
    BY <1>3 DEF Update, Object
  <2>2. Named([val |-> o.val, ports |-> Naming(updatePorts(s))]) \subseteq updatePorts(s)
    BY DEF Named, Naming
  <2>3. QED
    BY <1>3, <2>1, <2>2, NamingType DEF Object
<1>4. CASE k = "conf"
  BY <1>4, NamingType DEF Update, Object, ValueOf
<1>5. QED
  BY <1>1, <1>2, <1>3, <1>4 DEF Kind

\* An accepted write, as CreateOrUpdate(k) makes it: the object that was there, or the
\* one that was built, updated and completed.
LEMMA WriteFacts ==
    ASSUME TypeOK, NEW k \in Kind, CreateOrUpdate(k), object' # object
    PROVE  /\ view[k] = object[k]
           /\ \E v \in Values, n \in NodePorts :
                LET o == IF view[k] = Absent THEN Build(k, v) ELSE view[k] IN
                /\ o \in Object /\ (o = Absent \/ o.val \in ValueOf(k))
                /\ k \in {"cookie", "user"} => o # Absent
                /\ object' = [object EXCEPT ![k] = Completed(k, Update(k, mem, o, v), n)]
<1>1. PICK v \in Values, n \in NodePorts :
        LET found == IF view[k] = Absent THEN Build(k, v) ELSE view[k]
            new == Update(k, mem, found, v) IN
        IF view[k] = object[k] /\ Valid(k, new)
        THEN object' = [object EXCEPT ![k] = Completed(k, new, n)]
        ELSE UNCHANGED object
  BY DEF CreateOrUpdate
<1> DEFINE o == IF view[k] = Absent THEN Build(k, v) ELSE view[k]
<1>2. /\ view[k] = object[k]
      /\ object' = [object EXCEPT ![k] = Completed(k, Update(k, mem, o, v), n)]
  BY <1>1
<1>3. /\ o \in Object /\ (o = Absent \/ o.val \in ValueOf(k))
      /\ k \in {"cookie", "user"} => o # Absent
  <2>1. CASE view[k] # Absent
    BY <2>1 DEF TypeOK
  <2>2. CASE view[k] = Absent /\ k \in {"cookie", "user"}
    <3>1. Build(k, v) = [val |-> v, ports |-> Absent.ports]
      BY <2>2 DEF Build, Absent
    <3>2. [val |-> v, ports |-> Absent.ports] \in Object
      BY AbsentType DEF Object
    <3>3. v # "absent" /\ v \in ValueOf(k)
      BY <2>2, PortsAssumption DEF ValueOf
    <3>4. QED
      BY <2>2, <3>1, <3>2, <3>3, AbsentType
  <2>3. CASE view[k] = Absent /\ k \notin {"cookie", "user"}
    BY <2>3, AbsentType DEF Build
  <2>4. QED
    BY <2>1, <2>2, <2>3
<1>4. QED
  BY <1>2, <1>3

\* The objects keep their types.
LEMMA WriteType ==
    ASSUME TypeOK, NEW k \in Kind, CreateOrUpdate(k)
    PROVE  /\ object' \in [Kind -> Object]
           /\ \A j \in Kind : object'[j] = Absent \/ object'[j].val \in ValueOf(j)
<1>1. CASE object' = object
  BY <1>1 DEF TypeOK
<1>2. CASE object' # object
  <2>1. PICK v \in Values, n \in NodePorts :
          LET o == IF view[k] = Absent THEN Build(k, v) ELSE view[k] IN
          /\ o \in Object /\ (o = Absent \/ o.val \in ValueOf(k))
          /\ k \in {"cookie", "user"} => o # Absent
          /\ object' = [object EXCEPT ![k] = Completed(k, Update(k, mem, o, v), n)]
    BY <1>2, WriteFacts
  <2> DEFINE o == IF view[k] = Absent THEN Build(k, v) ELSE view[k]
  <2> DEFINE u == Update(k, mem, o, v)
  <2> DEFINE c == Completed(k, u, n)
  <2>2. mem \in ClusterSpec
    BY PortsAssumption DEF TypeOK
  <2>3. u \in Object /\ u.val \in ValueOf(k)
    BY <2>1, <2>2, UpdateFacts
  <2>4. c \in Object /\ c.val \in ValueOf(k)
    BY <2>3, CompletedFacts
  <2>5. object' = [object EXCEPT ![k] = c]
    BY <2>1
  <2> HIDE DEF c
  <2>6. QED
    BY <2>4, <2>5 DEF TypeOK
<1>3. QED
  BY <1>1, <1>2

-----------------------------------------------------------------------------
(***************************************************************************)
(* Types.                                                                  *)
(***************************************************************************)
LEMMA AnySpecType == AnySpec \in Specs
BY PortsAssumption DEF AnySpec

LEMMA InitType == Init => TypeOK
<1> SUFFICES ASSUME Init PROVE TypeOK
  OBVIOUS
<1>1. object \in [Kind -> Object] /\ \A k \in Kind : object[k] = Absent
  BY AbsentType DEF Init
<1>2. QED
  BY <1>1, AnySpecType, PortsAssumption DEF Init, TypeOK

\* Every step keeps the types.
LEMMA TypeStep == TypeOK /\ [Next]_vars => TypeOK'
<1> SUFFICES ASSUME TypeOK, [Next]_vars PROVE TypeOK'
  OBVIOUS
<1> USE AnySpecType DEF TypeOK
<1>1. CASE getRabbitmqCluster
  BY <1>1 DEF getRabbitmqCluster, After, Kind
<1>2. CASE \E k \in Kind : unchanged(k)
  <2>1. PICK k \in Kind : unchanged(k)
    BY <1>2
  <2>2. pc' \in Kind \cup {"idle"} /\ mem' \in Specs
    BY <2>1 DEF unchanged, After, Kind
  <2>3. QED
    BY <2>1, <2>2 DEF unchanged
<1>3. CASE \E k \in Kind : CreateOrUpdate(k)
  <2>1. PICK k \in Kind : CreateOrUpdate(k)
    BY <1>3
  <2>2. /\ object' \in [Kind -> Object]
        /\ \A j \in Kind : object'[j] = Absent \/ object'[j].val \in ValueOf(j)
    BY <2>1, WriteType
  <2>3. pc' = "idle" /\ mem' \in Specs /\ queued' \in BOOLEAN
    BY <2>1 DEF CreateOrUpdate, Requeue
  <2>4. UNCHANGED <<spec, specView, view, edits, faults>>
    BY <2>1 DEF CreateOrUpdate
  <2>5. QED
    BY <2>2, <2>3, <2>4
<1>4. CASE \E k \in Kind : callFails(k)
  BY <1>4, PortsAssumption DEF callFails, Fault, Requeue
<1>5. CASE Crash
  BY <1>5, PortsAssumption DEF Crash, Fault, Requeue
<1>6. CASE UserEdits
  BY <1>6, PortsAssumption DEF UserEdits
<1>7. CASE specSync
  BY <1>7 DEF specSync
<1>8. CASE \E k \in Kind : objectSync(k)
  BY <1>8 DEF objectSync
<1>9. CASE UNCHANGED vars
  BY <1>9 DEF vars
<1>10. QED
  BY <1>1, <1>2, <1>3, <1>4, <1>5, <1>6, <1>7, <1>8, <1>9 DEF Next, OperatorStep

\* Every variable keeps its type, and every object a value of its own kind.
THEOREM PortsTypeCorrect == Spec => []TypeOK
BY InitType, TypeStep, PTL DEF Spec

-----------------------------------------------------------------------------
(***************************************************************************)
(* The Service.                                                            *)
(***************************************************************************)
\* A write of the Service takes no port away, adds those of the spec at hand, gives
\* each a node port if its type needs it, and changes none that is still needed.
LEMMA ServiceWrite ==
    ASSUME TypeOK, NEW k \in Kind, CreateOrUpdate(k)
    PROVE  LET old == object["service"]
               new == object'["service"] IN
           /\ k # "service" => new = old
           /\ Named(old) \subseteq Named(new)
           /\ NodePortInv => NodePortInv'
           /\ NodePortInv /\ old.val \in {"NodePort", "LoadBalancer"}
                         /\ new.val \in {"NodePort", "LoadBalancer"}
                => \A p \in Port : old.ports[p] # NotNamed => new.ports[p] = old.ports[p]
<1> DEFINE old == object["service"]
<1> DEFINE new == object'["service"]
<1>0. old \in Object /\ "service" \in Kind
  BY DEF TypeOK, Kind
<1>1. CASE new = old
  BY <1>1 DEF NodePortInv
<1>2. CASE new # old
  <2>1. PICK v \in Values, n \in NodePorts :
          LET o == IF view[k] = Absent THEN Build(k, v) ELSE view[k] IN
          /\ o \in Object /\ (o = Absent \/ o.val \in ValueOf(k))
          /\ k \in {"cookie", "user"} => o # Absent
          /\ object' = [object EXCEPT ![k] = Completed(k, Update(k, mem, o, v), n)]
    BY <1>2, WriteFacts
  <2>2. k = "service"
    BY <1>2, <2>1, <1>0 DEF TypeOK
  <2>3. view[k] = object[k]
    BY <1>2, WriteFacts
  <2> DEFINE o == IF view[k] = Absent THEN Build(k, v) ELSE view[k]
  <2>4. o = old
    BY <2>2, <2>3 DEF Build
  <2> DEFINE u == UpdateService(mem, old)
  <2>5. mem \in ClusterSpec
    BY PortsAssumption DEF TypeOK
  <2>6. Update(k, mem, o, v) = u
    BY <2>2, <2>4 DEF Update
  <2>7. new = Completed("service", u, n)
    BY <2>1, <2>2, <2>6, <1>0 DEF TypeOK
  <2>8. /\ u \in Object /\ u.val \in ServiceType
        /\ \A p \in Port : old.ports[p] # NotNamed => u.ports[p] # NotNamed
        /\ u.val # "ClusterIP" =>
             \A p \in Port : old.ports[p] # NotNamed => u.ports[p] = old.ports[p]
    BY <1>0, <2>5, ServiceFacts
  <2> HIDE DEF u
  <2>9. /\ new.val = u.val /\ Named(new) = Named(u)
        /\ \A p \in Port : u.ports[p] # 0 => new.ports[p] = u.ports[p]
        /\ u.val # "ClusterIP" => \A p \in Port : new.ports[p] # 0
    BY <1>0, <2>7, <2>8, CompletedFacts
  <2>10. Named(old) \subseteq Named(new)
    BY <2>8, <2>9 DEF Named
  <2>11. NodePortInv'
    BY <2>9 DEF NodePortInv
  <2>12. ASSUME NodePortInv, old.val \in {"NodePort", "LoadBalancer"},
                new.val \in {"NodePort", "LoadBalancer"}, NEW p \in Port,
                old.ports[p] # NotNamed
         PROVE  new.ports[p] = old.ports[p]
    <3>1. old.ports[p] # 0
      BY <2>12 DEF NodePortInv
    <3>2. u.ports[p] = old.ports[p]
      BY <2>8, <2>9, <2>12
    <3>3. QED
      BY <2>9, <3>1, <3>2
  <2>13. QED
    BY <2>2, <2>10, <2>11, <2>12
<1>3. QED
  BY <1>1, <1>2

\* Only CreateOrUpdate writes an object.
LEMMA OthersWriteNothing ==
    ASSUME [Next]_vars, \A k \in Kind : ~CreateOrUpdate(k) PROVE object' = object
BY DEF Next, OperatorStep, getRabbitmqCluster, unchanged, callFails, Crash, UserEdits,
       specSync, objectSync, vars

\* A Service whose type needs node ports has them.
LEMMA NodePortStep == TypeOK /\ NodePortInv /\ [Next]_vars => NodePortInv'
<1> SUFFICES ASSUME TypeOK, NodePortInv, [Next]_vars PROVE NodePortInv'
  OBVIOUS
<1>1. CASE \E k \in Kind : CreateOrUpdate(k)
  BY <1>1, ServiceWrite
<1>2. CASE ~\E k \in Kind : CreateOrUpdate(k)
  BY <1>2, OthersWriteNothing DEF NodePortInv
<1>3. QED
  BY <1>1, <1>2

\* The node ports of the ports a spec asks for are kept as long as the type of the
\* Service needs node ports.  Here this holds because all ports are kept.
THEOREM NodePortsKept == Spec => NodePortsStable
<1> DEFINE Kept == /\ object["service"].val \in {"NodePort", "LoadBalancer"}
                   /\ object'["service"].val \in {"NodePort", "LoadBalancer"}
                   => \A p \in Port :
                        p \in ClientServicePorts(mem) /\ object["service"].ports[p] # NotNamed =>
                          object'["service"].ports[p] = object["service"].ports[p]
<1>1. Init => NodePortInv
  BY AbsentType DEF Init, NodePortInv, Kind
<1>2. TypeOK /\ NodePortInv /\ [Next]_vars => [Kept]_vars
  <2> SUFFICES ASSUME TypeOK, NodePortInv, [Next]_vars PROVE Kept
    OBVIOUS
  <2>1. CASE \E k \in Kind : CreateOrUpdate(k)
    BY <2>1, ServiceWrite
  <2>2. CASE ~\E k \in Kind : CreateOrUpdate(k)
    BY <2>2, OthersWriteNothing
  <2>3. QED
    BY <2>1, <2>2
<1>3. QED
  BY <1>1, <1>2, InitType, TypeStep, NodePortStep, PTL DEF Spec, NodePortsStable

-----------------------------------------------------------------------------
(***************************************************************************)
(* The Secrets.                                                            *)
(***************************************************************************)
\* A write of a Secret that exists starts from what it has.
LEMMA SecretWrite ==
    ASSUME TypeOK, NEW k \in Kind, CreateOrUpdate(k),
           NEW j \in {"cookie", "user"}, object[j] # Absent
    PROVE  object'[j].val = object[j].val
<1>1. CASE object' = object \/ k # j
  BY <1>1, WriteFacts DEF TypeOK, Kind
<1>2. CASE object' # object /\ k = j
  <2>1. PICK v \in Values, n \in NodePorts :
          object' = [object EXCEPT ![k] = Completed(k, Update(k, mem, view[k], v), n)]
    BY <1>2, WriteFacts
  <2>2. view[k] = object[k]
    BY <1>2, WriteFacts
  <2>3. mem \in ClusterSpec /\ view[k] \in Object /\ view[k].val \in ValueOf(k)
    BY <1>2, <2>2, PortsAssumption DEF TypeOK
  <2>4. /\ Update(k, mem, view[k], v) \in Object
        /\ Update(k, mem, view[k], v).val = view[k].val
    BY <1>2, <2>2, <2>3, UpdateFacts
  <2>5. Completed(k, Update(k, mem, view[k], v), n).val = view[k].val
    BY <2>4, CompletedFacts
  <2>6. object'[k] = Completed(k, Update(k, mem, view[k], v), n)
    BY <2>1 DEF TypeOK
  <2>7. QED
    BY <1>2, <2>2, <2>5, <2>6
<1>3. QED
  BY <1>1, <1>2

\* Credentials and cookie, once written, are never replaced.
THEOREM SecretsKept == Spec => SecretsStable
<1> DEFINE Kept == \A k \in {"cookie", "user"} :
                     object[k] # Absent => object'[k].val = object[k].val
<1>1. TypeOK /\ [Next]_vars => [Kept]_vars
  <2> SUFFICES ASSUME TypeOK, [Next]_vars PROVE Kept
    OBVIOUS
  <2>1. CASE \E k \in Kind : CreateOrUpdate(k)
    BY <2>1, SecretWrite
  <2>2. CASE ~\E k \in Kind : CreateOrUpdate(k)
    BY <2>2, OthersWriteNothing
  <2>3. QED
    BY <2>1, <2>2
<1>2. QED
  BY <1>1, PortsTypeCorrect, PTL DEF Spec, SecretsStable

-----------------------------------------------------------------------------
(***************************************************************************)
(* What is advertised is served.                                           *)
(***************************************************************************)
\* The Service is ahead of its copies, and of the Secret.
LEMMA ServedInit == Init => ServedInv /\ AdvertisedServed
BY DEF Init, ServedInv, AdvertisedServed, Kind

\* When the Service needs no write, it has the ports of the spec at hand.
LEMMA UnchangedService ==
    ASSUME TypeOK, ServedInv, unchanged("service")
    PROVE  ClientServicePorts(mem) \subseteq Named(object["service"])
<1>1. UpdateService(mem, view["service"]) = view["service"]
  BY DEF unchanged, Update
<1>2. mem \in ClusterSpec /\ view["service"] \in Object
  BY PortsAssumption DEF TypeOK, Kind
<1>3. \A p \in Port : p \in ClientServicePorts(mem) => view["service"].ports[p] # NotNamed
  BY <1>1, <1>2, ServiceFacts
<1>4. ClientServicePorts(mem) \subseteq Named(view["service"])
  BY <1>3, ExposedArePorts DEF Named
<1>5. QED
  BY <1>4 DEF ServedInv

\* A write of the Service keeps and adds ports, and the Secret is written when the
\* Service has its ports.
LEMMA ServedWrite ==
    ASSUME \A s \in Specs : Consistent(s), TypeOK, ServedInv, AdvertisedServed,
           NEW k \in Kind, CreateOrUpdate(k)
    PROVE  ServedInv' /\ AdvertisedServed'
<1>1. Named(object["service"]) \subseteq Named(object'["service"])
  BY ServiceWrite
<1>2. pc' = "idle" /\ view' = view
  BY DEF CreateOrUpdate, Requeue
<1>3. ServedInv'
  BY <1>1, <1>2 DEF ServedInv, Named
<1>4. Named(object'["user"]) \subseteq Named(object'["service"])
  <2>1. CASE object'["user"] = object["user"]
    BY <1>1, <2>1 DEF AdvertisedServed
  <2>2. CASE object'["user"] # object["user"]
    <3>1. PICK v \in Values, n \in NodePorts :
            LET o == IF view[k] = Absent THEN Build(k, v) ELSE view[k] IN
            /\ o \in Object /\ (o = Absent \/ o.val \in ValueOf(k))
            /\ k \in {"cookie", "user"} => o # Absent
            /\ object' = [object EXCEPT ![k] = Completed(k, Update(k, mem, o, v), n)]
      BY <2>2, WriteFacts
    <3>2. k = "user" /\ pc = "user"
      BY <2>2, <3>1 DEF TypeOK, Kind, CreateOrUpdate
    <3> DEFINE o == IF view[k] = Absent THEN Build(k, v) ELSE view[k]
    <3>3. mem \in ClusterSpec /\ Consistent(mem) /\ ~Refused(mem)
      BY <3>2, PortsAssumption DEF TypeOK, ServedInv
    <3>4. /\ Update(k, mem, o, v) \in Object
          /\ Named(Update(k, mem, o, v)) \subseteq updatePorts(mem)
      BY <3>1, <3>2, <3>3, UpdateFacts
    <3>5. object'["user"] = Update(k, mem, o, v)
      BY <3>1, <3>2, <3>4, CompletedFacts DEF TypeOK
    <3>6. updatePorts(mem) \subseteq Named(object["service"])
      BY <3>2, <3>3, AdvertisedIsExposed DEF ServedInv
    <3>7. QED
      BY <1>1, <3>4, <3>5, <3>6
  <2>3. QED
    BY <2>1, <2>2
<1>5. QED
  BY <1>3, <1>4 DEF AdvertisedServed

\* The other steps write no object: they take a turn on, or copy what is there.
LEMMA ServedStep ==
    ASSUME \A s \in Specs : Consistent(s)
    PROVE  TypeOK /\ ServedInv /\ AdvertisedServed /\ [Next]_vars
             => ServedInv' /\ AdvertisedServed'
<1> SUFFICES ASSUME TypeOK, ServedInv, AdvertisedServed, [Next]_vars
             PROVE  ServedInv' /\ AdvertisedServed'
  OBVIOUS
<1>1. CASE \E k \in Kind : CreateOrUpdate(k)
  BY <1>1, ServedWrite
<1>2. CASE ~\E k \in Kind : CreateOrUpdate(k)
  <2>1. object' = object
    BY <1>2, OthersWriteNothing
  <2>2. AdvertisedServed'
    BY <2>1 DEF AdvertisedServed, Named
  <2>3. CASE getRabbitmqCluster
    <3>1. view' = view
      BY <2>3 DEF getRabbitmqCluster
    <3>2. pc' = "service" /\ ~Refused(mem')
      BY <2>3 DEF getRabbitmqCluster, After
    <3>3. QED
      BY <2>1, <2>2, <3>1, <3>2 DEF ServedInv, Named
  <2>4. CASE \E k \in Kind : unchanged(k)
    <3>1. PICK k \in Kind : unchanged(k)
      BY <2>4
    <3>2. view' = view /\ pc = k /\ pc' = After(k, mem) /\ (k = "conf" \/ mem' = mem)
      BY <3>1 DEF unchanged
    <3>3. k = "service" => ClientServicePorts(mem) \subseteq Named(object["service"])
      BY <3>1, UnchangedService
    <3>4. /\ pc' = "idle" => k = "conf"
          /\ pc' \in {"cookie", "user"} => k \in {"service", "cookie"}
          /\ k = "conf" => pc' = "idle"
      BY <3>2 DEF After, Kind
    <3>5. CASE k = "conf"
      BY <2>1, <2>2, <3>2, <3>4, <3>5 DEF ServedInv, Named
    <3>6. CASE k # "conf"
      <4>1. pc # "idle" /\ mem' = mem
        BY <3>2, <3>6 DEF Kind
      <4>2. ~Refused(mem')
        BY <4>1 DEF ServedInv
      <4>3. pc' \in {"cookie", "user"}
              => ClientServicePorts(mem') \subseteq Named(object["service"])
        BY <3>2, <3>3, <3>4, <4>1 DEF ServedInv
      <4>4. QED
        BY <2>1, <2>2, <3>2, <4>2, <4>3 DEF ServedInv, Named
    <3>7. QED
      BY <3>5, <3>6
  <2>5. CASE (\E k \in Kind : callFails(k)) \/ Crash
    <3>1. pc' = "idle" /\ view'["service"] \in {view["service"], object["service"]}
      BY <2>5 DEF callFails, Crash, Requeue
    <3>2. QED
      BY <2>1, <2>2, <3>1 DEF ServedInv, Named
  <2>6. CASE UserEdits \/ specSync \/ (\E k \in Kind : objectSync(k)) \/ UNCHANGED vars
    <3>1. /\ UNCHANGED <<pc, mem>>
          /\ view'["service"] \in {view["service"], object["service"]}
      BY <2>6 DEF UserEdits, specSync, objectSync, vars, TypeOK, Kind
    <3>2. QED
      BY <2>1, <2>2, <3>1 DEF ServedInv, Named
  <2>7. QED
    BY <1>2, <2>3, <2>4, <2>5, <2>6 DEF Next, OperatorStep
<1>3. QED
  BY <1>1, <1>2

\* Whatever the Secret of the default user advertises, the Service exposes, if no
\* spec is one of those for which the two builders disagree.
THEOREM Advertised ==
    ASSUME \A s \in Specs : Consistent(s) PROVE Spec => []AdvertisedServed
<1>1. TypeOK /\ ServedInv /\ AdvertisedServed /\ [Next]_vars
        => ServedInv' /\ AdvertisedServed'
  BY ServedStep
<1>2. QED
  BY <1>1, InitType, TypeStep, ServedInit, PTL DEF Spec

\* The copies of the Service, the Service and the Secret agree as IndInv says, which is
\* why nothing that is advertised is ever taken away.
THEOREM PortsInvariance ==
    ASSUME \A s \in Specs : Consistent(s) PROVE Spec => []IndInv
<1>1. TypeOK /\ ServedInv /\ AdvertisedServed /\ [Next]_vars
        => ServedInv' /\ AdvertisedServed'
  BY ServedStep
<1>2. Init => NodePortInv
  BY AbsentType DEF Init, NodePortInv, Kind
<1>3. QED
  BY <1>1, <1>2, InitType, TypeStep, ServedInit, NodePortStep, PTL DEF Spec, IndInv

-----------------------------------------------------------------------------
(***************************************************************************)
(* When nothing is left to do.                                             *)
(***************************************************************************)
\* The builder of kind k has nothing to write for spec s.
UpToDate(k, s) == view[k] # Absent /\ \E v \in Values : Update(k, s, view[k], v) = view[k]

\* The builders a reconcile for spec s has passed when it has reached step.
Passed(step, s) ==
    CASE step = "service" -> {}
      [] step = "cookie"  -> {"service"}
      [] step = "user"    -> {"service", "cookie"}
      [] step = "conf"    -> {"service", "cookie"} \cup (IF s.noUser THEN {} ELSE {"user"})
      [] step = "idle"    -> {"service", "cookie", "conf"} \cup (IF s.noUser THEN {} ELSE {"user"})

\* As long as no event has queued the cluster again, the reconcile works for the spec
\* in the cache, and the builders it has passed, all of them if it has ended, still
\* find nothing to write.
PassedInv ==
    ~queued => /\ pc # "idle" => mem = specView
               /\ \A k \in Passed(pc, specView) : UpToDate(k, specView)

\* The steps of one reconcile, in which the only way on is past a builder that found
\* nothing to write; every other step queues the cluster or changes nothing of this.
LEMMA PassedStep == TypeOK /\ PassedInv /\ [Next]_vars => PassedInv'
<1> SUFFICES ASSUME TypeOK, PassedInv, [Next]_vars PROVE PassedInv'
  OBVIOUS
<1>1. CASE getRabbitmqCluster
  BY <1>1 DEF getRabbitmqCluster, After, PassedInv, Passed
<1>2. ASSUME NEW k \in Kind, unchanged(k) PROVE PassedInv'
  <2> SUFFICES ASSUME ~queued' PROVE /\ pc' # "idle" => mem' = specView'
                                     /\ \A j \in Passed(pc', specView') : UpToDate(j, specView)'
    BY DEF PassedInv
  <2>1. /\ pc = k /\ k # "idle" /\ pc' = After(k, mem) /\ ~queued
        /\ UNCHANGED <<specView, view>>
    BY <1>2 DEF unchanged, Kind
  <2>2. mem = specView /\ \A j \in Passed(k, specView) : UpToDate(j, specView)
    BY <2>1 DEF PassedInv
  <2>3. UpToDate(k, specView)
    BY <1>2, <2>2 DEF unchanged, UpToDate
  <2>4. \A j : UpToDate(j, specView)' <=> UpToDate(j, specView)
    BY <2>1 DEF UpToDate
  <2>5. Passed(pc', specView) \subseteq Passed(k, specView) \cup {k}
    BY <2>1, <2>2 DEF Passed, After, Kind
  <2>6. pc' # "idle" => mem' = mem
    BY <1>2, <2>1 DEF unchanged, After, Kind
  <2>7. QED
    BY <2>1, <2>2, <2>3, <2>4, <2>5, <2>6
<1>3. CASE \/ (\E k \in Kind : CreateOrUpdate(k) \/ callFails(k) \/ objectSync(k))
           \/ Crash \/ specSync
  BY <1>3 DEF CreateOrUpdate, callFails, Crash, Requeue, specSync, objectSync, PassedInv
<1>4. CASE UserEdits \/ UNCHANGED vars
  <2>1. UNCHANGED <<specView, view, queued, pc, mem>>
    BY <1>4 DEF UserEdits, vars
  <2>2. QED
    BY <2>1 DEF PassedInv, UpToDate
<1>5. QED
  BY <1>1, <1>2, <1>3, <1>4 DEF Next, OperatorStep

\* With plain listeners disabled, the configuration of a consistent spec has none.
LEMMA NoPlainListener ==
    ASSUME NEW s \in ClusterSpec, Consistent(s), ~Refused(s), s.disableNonTls,
           NEW q \in Protocol
    PROVE  ~plainListener(s, q)
<1>1. TLSEnabled(s)
  BY DEF Refused
<1>2. s.plugins \cap {"web_mqtt", "web_stomp"} # {} => MutualTLSEnabled(s)
  BY <1>1 DEF Consistent, TLSEnabled, SecretTLSEnabled, MutualTLSEnabled
<1>3. StreamNeeded(s) => "stream" \in s.plugins
  BY <1>1 DEF Consistent
<1>4. QED
  BY <1>1, <1>2, <1>3 DEF plainListener, Protocol

\* What the objects name when no builder has anything to write.
LEMMA ServedWhenUpToDate ==
    ASSUME TypeOK, NEW s \in ClusterSpec, Consistent(s), ~Refused(s),
           \A k \in Passed("idle", s) : UpToDate(k, s)
    PROVE  /\ ClientServicePorts(s) \subseteq Named(view["service"])
           /\ ClientServicePorts(s) \subseteq Named(view["conf"])
           /\ s.disableNonTls => \A p \in Named(view["conf"]) : p[2] = "tls"
           /\ ~s.noUser => /\ view["user"] # Absent
                           /\ Named(view["user"]) \subseteq Named(view["conf"])
           /\ view["cookie"] # Absent
<1>0. \A k \in Kind : view[k] \in Object /\ (view[k] = Absent \/ view[k].val \in ValueOf(k))
  BY DEF TypeOK
<1>1. UpToDate("service", s) /\ UpToDate("cookie", s) /\ UpToDate("conf", s)
        /\ (~s.noUser => UpToDate("user", s))
  BY DEF Passed
<1>2. ClientServicePorts(s) \subseteq Named(view["service"])
  <2>1. UpdateService(s, view["service"]) = view["service"]
    BY <1>1 DEF UpToDate, Update
  <2>2. \A p \in Port : p \in ClientServicePorts(s) => view["service"].ports[p] # NotNamed
    BY <2>1, <1>0, ServiceFacts DEF Kind
  <2>3. QED
    BY <2>2, ExposedArePorts DEF Named
<1>3. Named(view["conf"]) = {p \in Port : p \in listeners(s)}
  <2>1. view["conf"].ports = Naming(listeners(s))
    BY <1>1 DEF UpToDate, Update
  <2>2. QED
    BY <2>1 DEF Named, Naming, NotNamed
<1>4. ClientServicePorts(s) \subseteq Named(view["conf"])
  BY <1>3, ExposedIsListenedTo, ExposedArePorts
<1>5. ASSUME s.disableNonTls, NEW p \in Named(view["conf"]) PROVE p[2] = "tls"
  <2>1. p \in listeners(s)
    BY <1>3
  <2>2. p \notin {<<q, "tcp">> : q \in {q \in Protocol : plainListener(s, q)}}
    BY <1>5, NoPlainListener
  <2>3. QED
    BY <2>1, <2>2 DEF listeners
<1>6. ASSUME ~s.noUser PROVE Named(view["user"]) \subseteq Named(view["conf"])
  <2>1. PICK v \in Values : Update("user", s, view["user"], v) = view["user"]
    BY <1>1, <1>6 DEF UpToDate
  <2>2. Named(view["user"]) \subseteq updatePorts(s)
    BY <1>0, <1>1, <1>6, <2>1, UpdateFacts DEF UpToDate, Kind
  <2>3. QED
    BY <2>2, <1>4, AdvertisedIsExposed
<1>7. QED
  BY <1>1, <1>2, <1>4, <1>5, <1>6 DEF UpToDate

\* When nothing is left to do, the Service exposes what the spec asks for, the broker
\* listens there and on no plain port that is disabled, and the Secret advertises what
\* clients can use, for any set of consistent specs, any edits, faults and lag.
THEOREM QuietServed ==
    ASSUME \A s \in Specs : Consistent(s) PROVE Spec => []QuietMeansServed
<1>1. Init => PassedInv
  BY DEF Init, PassedInv
<1>2. TypeOK /\ PassedInv => QuietMeansServed
  <2> SUFFICES ASSUME TypeOK, PassedInv, Quiet, ~Refused(spec)
               PROVE  QuietMeansServed
    BY DEF QuietMeansServed
  <2>1. pc = "idle" /\ specView = spec /\ view = object /\ ~queued
    BY DEF Quiet
  <2>2. \A k \in Passed("idle", spec) : UpToDate(k, spec)
    BY <2>1 DEF PassedInv
  <2>3. spec \in ClusterSpec /\ Consistent(spec)
    BY PortsAssumption DEF TypeOK
  <2>4. QED
    BY <2>1, <2>2, <2>3, ServedWhenUpToDate DEF QuietMeansServed
<1>3. QED
  BY <1>1, <1>2, PassedStep, PortsTypeCorrect, PTL DEF Spec

=============================================================================
