----------------------------- MODULE RabbitMQPod -----------------------------
(***************************************************************************)
(* What the RabbitMq controller renders for a cluster: the broker's pod    *)
(* with its volumes, mounts, files and probes, the broker's configuration, *)
(* the AMQP proxy sidecar, the Services and the port of the default-user   *)
(* Secret (internal/rabbitmq, internal/controller/rabbitmq/proxy.go).      *)
(* Each function decides by itself, from the same few settings, what it    *)
(* emits; the module says what each one emits and checks that the parts    *)
(* fit, for every combination of settings.                                 *)
(*                                                                         *)
(* A mount is [vol, path, key]: the volume, the place, and the key of the  *)
(* volume that is mounted there, Whole when the volume is.  A listener is  *)
(* [port, addr]; "any" is reachable from outside the pod.                  *)
(***************************************************************************)
EXTENDS Naturals, FiniteSets

Settings == [tls : BOOLEAN,         \* spec.tls.secretName is set
             disableNonTLS : BOOLEAN,
             advanced : BOOLEAN,    \* spec.rabbitmq.advancedConfig is set
             env : BOOLEAN,         \* spec.rabbitmq.envConfig is set
             inetrc : BOOLEAN,      \* spec.rabbitmq.erlangInetConfig is set
             ipv6 : BOOLEAN,        \* the cluster's Services are IPv6
             proxy : BOOLEAN,       \* shouldEnableProxy
             wipe : BOOLEAN]        \* the pods start with the data wipe

VARIABLES
  setting,   \* the settings a reconcile renders, or NotRendered
  rendered   \* what it renders

podVars == <<setting, rendered>>

NotRendered == [none |-> TRUE]

Whole == "*"
When(cond, S) == IF cond THEN S ELSE {}

AMQPPort == 5672
AMQPSPort == 5671
BackendPort == 5673
BackendTLSPort == 5674

-----------------------------------------------------------------------------
(* ConfigMaps and Secrets, by their keys.                                  *)

ServerConfKeys(s) ==
  {"operatorDefaults.conf", "userDefinedConfiguration.conf", "advanced.config"}
    \cup When(s.env, {"rabbitmq-env.conf"})
    \cup When(s.inetrc \/ s.ipv6, {"erl_inetrc"})

ConfigDataKeys(s) == When(s.tls, {"inter_node_tls.config"})

\* A TLS Secret is admitted only with its keys; CaSecretName is there too.
TLSFiles == {"tls.crt", "tls.key", "ca.crt"}

\* getVolumes, the proxy's script volume and the claim template: the keys that
\* each volume offers.  An emptyDir or a claim offers what is put there.
Volumes(s) ==
  LET offers(v) ==
        CASE v = "erlang-cookie-secret" -> {".erlang.cookie"}
          [] v = "plugins-conf" -> {"enabled_plugins"}
          [] v = "rabbitmq-confd" -> {"operatorDefaults.conf", "userDefinedConfiguration.conf",
                                      "default_user.conf"}
          [] v = "pod-info" -> {"skipPreStopChecks"}
          [] v = "server-conf" -> ServerConfKeys(s)
          [] v = "config-data" -> ConfigDataKeys(s)
          [] v = "rabbitmq-tls" -> TLSFiles
          [] v = "proxy-script" -> {"proxy.py"}
          [] OTHER -> {}
  IN  [v \in {"rabbitmq-erlang-cookie", "erlang-cookie-secret", "rabbitmq-plugins", "plugins-conf",
              "rabbitmq-confd", "pod-info", "server-conf", "persistence"}
               \cup When(s.tls, {"config-data", "rabbitmq-tls"})
               \cup When(s.proxy, {"proxy-script"})
         |-> offers(v)]

-----------------------------------------------------------------------------
(* Containers: mounts, and the files their commands and settings name.     *)

Mount(vol, path, key) == [vol |-> vol, path |-> path, key |-> key]

\* The bug of mounting the inetrc file only when the user provides one.
MountsInetrcUserOnly(s) == s.inetrc

MountsInetrc(s) == s.inetrc \/ s.ipv6

GetVolumeMounts(s) ==
  {Mount("rabbitmq-erlang-cookie", "home", Whole),
   Mount("persistence", "mnesia", Whole),
   Mount("rabbitmq-plugins", "operator", Whole),
   Mount("rabbitmq-confd", "10-operatorDefaults", "operatorDefaults.conf"),
   Mount("rabbitmq-confd", "90-userDefined", "userDefinedConfiguration.conf"),
   Mount("rabbitmq-confd", "11-default_user", "default_user.conf"),
   Mount("pod-info", "pod-info", Whole)}
  \cup When(s.tls \/ s.advanced, {Mount("server-conf", "advanced.config", "advanced.config")})
  \cup When(s.env, {Mount("server-conf", "rabbitmq-env.conf", "rabbitmq-env.conf")})
  \cup When(MountsInetrc(s), {Mount("server-conf", "erl_inetrc", "erl_inetrc")})
  \cup When(s.tls, {Mount("config-data", "inter-node-tls.config", "inter_node_tls.config"),
                    Mount("rabbitmq-tls", "rabbitmq-tls", Whole)})

GetInitContainerVolumeMounts ==
  {Mount("plugins-conf", "tmp-plugins", Whole),
   Mount("rabbitmq-erlang-cookie", "home", Whole),
   Mount("erlang-cookie-secret", "tmp-cookie", Whole),
   Mount("rabbitmq-plugins", "operator", Whole),
   Mount("persistence", "mnesia", Whole),
   Mount("rabbitmq-confd", "tmp-default_user", "default_user.conf")}

\* BuildRabbitMQConfig: the Erlang arguments name files.
ErlArgsFiles(s) ==
  When(s.ipv6 \/ s.inetrc, {<<"erl_inetrc", "erl_inetrc">>})
    \cup When(s.tls, {<<"inter-node-tls.config", "inter_node_tls.config">>})

\* buildAdvancedConfig and buildInterNodeTLSConfig name the certificates, unless
\* the user replaces the advanced config; the inter-node file is always used.
TLSConfigFiles(s) == When(s.tls, {<<"rabbitmq-tls", f>> : f \in TLSFiles})

\* buildContainerEnv: the conf.d directory and the plugins the init container copied.
EnvFiles == {<<"10-operatorDefaults", "operatorDefaults.conf">>, <<"operator", "enabled_plugins">>}

\* buildLifecycle: the PreStop hook reads the label that skips it.
PreStopFiles == {<<"pod-info", "skipPreStopChecks">>}

\* buildInitContainer: what the set-up script copies, and where to.
SetupReads ==
  {<<"tmp-cookie", ".erlang.cookie">>, <<"tmp-plugins", "enabled_plugins">>,
   <<"tmp-default_user", "default_user.conf">>}
SetupWrites == {<<"home", ".erlang.cookie">>, <<"operator", "enabled_plugins">>}

Broker(s) ==
  [mounts |-> GetVolumeMounts(s),
   reads |-> ErlArgsFiles(s) \cup TLSConfigFiles(s) \cup EnvFiles \cup PreStopFiles,
   writes |-> {}]

Setup == [mounts |-> GetInitContainerVolumeMounts, reads |-> SetupReads, writes |-> SetupWrites]

\* buildWipeDataInitContainer empties the claim and leaves a marker; it mounts the
\* claim where the other containers have the emptyDir of the cookie.
WipeData ==
  [mounts |-> {Mount("persistence", "home", Whole)}, reads |-> {}, writes |-> {<<"home", "marker">>}]

\* BuildProxySidecarContainer
Proxy(s) ==
  [mounts |-> {Mount("proxy-script", "scripts", Whole)}
                 \cup When(s.tls, {Mount("rabbitmq-tls", "rabbitmq-tls", Whole)}),
   reads |-> {<<"scripts", "proxy.py">>}
               \cup When(s.tls, {<<"rabbitmq-tls", "tls.crt">>, <<"rabbitmq-tls", "tls.key">>}),
   writes |-> {}]

-----------------------------------------------------------------------------
(* Ports: where the broker and the proxy listen, and who points there.     *)

\* buildOperatorDefaults: without a tcp listener of its own a broker opens 5672.
OperatorDefaultsListeners(s) ==
  LET loopback == IF s.ipv6 THEN "::1" ELSE "127.0.0.1"
  IN  IF s.proxy
      THEN {[port |-> BackendPort, addr |-> loopback]}
             \cup When(s.tls, {[port |-> BackendTLSPort, addr |-> loopback]})
      ELSE When(s.tls, {[port |-> AMQPSPort, addr |-> "any"]})
             \cup When(~(s.tls /\ s.disableNonTLS), {[port |-> AMQPPort, addr |-> "any"]})

ProxyListenPort(s) == IF s.tls THEN AMQPSPort ELSE AMQPPort
ProxyBackend(s) == [port |-> BackendPort, addr |-> IF s.ipv6 THEN "::1" ELSE "127.0.0.1"]

\* buildContainerPorts: the names of the AMQP ports.
ContainerPorts(s) ==
  When(~s.tls \/ ~s.disableNonTLS, {<<"amqp", AMQPPort>>}) \cup When(s.tls, {<<"amqps", AMQPSPort>>})

\* buildReadinessProbe, which StatefulSet replaces by a ping behind the proxy.
ReadinessProbe(s) == IF s.proxy THEN "ping" ELSE IF s.tls THEN "amqps" ELSE "amqp"

\* buildClientServicePorts, the AMQP part.
ClientServicePorts(s) ==
  When(~s.tls \/ ~s.disableNonTLS, {AMQPPort}) \cup When(s.tls, {AMQPSPort})

\* ensureDefaultUser: the port that clients are told.
DefaultUserPort(s) == IF s.tls THEN AMQPSPort ELSE AMQPPort

-----------------------------------------------------------------------------
(* StatefulSet: the pod as a whole.                                        *)

StatefulSet(s) ==
  [volumes |-> Volumes(s),
   inits |-> {Setup} \cup When(s.wipe, {WipeData}),
   containers |-> {Broker(s)} \cup When(s.proxy, {Proxy(s)}),
   probe |-> ReadinessProbe(s),
   listeners |-> OperatorDefaultsListeners(s)
                   \cup When(s.proxy, {[port |-> ProxyListenPort(s), addr |-> "any"]})]

PodInit == setting = NotRendered /\ rendered = NotRendered

RenderPod ==
  /\ setting = NotRendered
  /\ setting' \in Settings
  /\ rendered' = StatefulSet(setting')

PodSpec == PodInit /\ [][RenderPod]_podVars

-----------------------------------------------------------------------------
(* Properties.                                                             *)

\* What the init containers leave on the volumes.
Left ==
  UNION {{<<m.vol, w[2]>> : <<m, w>> \in {mw \in i.mounts \X i.writes : mw[1].path = mw[2][1]}} :
           i \in rendered.inits}

\* A file a container reads is mounted there, by its key or with its volume, or
\* was put on a shared volume by an init container.
HasFile(c, f) ==
  \E m \in c.mounts :
    /\ m.path = f[1]
    /\ \/ m.key = f[2]
       \/ m.key = Whole /\ f[2] \in rendered.volumes[m.vol]
       \/ m.key = Whole /\ <<m.vol, f[2]>> \in Left

\* Every combination of settings gives a pod that starts and a cluster that its
\* clients reach: each mount has its volume and its key, each file a command or
\* a configuration names is mounted, the readiness probe asks a port that is
\* declared and open, and the port of the default-user Secret is offered by the
\* client Service and open to it; behind the proxy that is the proxy, whose
\* backend is a listener of the broker, and the broker itself cannot be reached.
\* A dozen functions take these decisions independently.
RenderingFits ==
  setting # NotRendered =>
    /\ \A c \in rendered.inits \cup rendered.containers :
         /\ \A m \in c.mounts : m.vol \in DOMAIN rendered.volumes
                                /\ m.key # Whole => m.key \in rendered.volumes[m.vol]
         /\ \A m, n \in c.mounts : m.path = n.path => m = n
         /\ \A f \in c.reads : HasFile(c, f)
    /\ rendered.probe # "ping" =>
         \E p \in ContainerPorts(setting) :
           p[1] = rendered.probe /\ [port |-> p[2], addr |-> "any"] \in rendered.listeners
    /\ DefaultUserPort(setting) \in ClientServicePorts(setting)
    /\ [port |-> DefaultUserPort(setting), addr |-> "any"] \in rendered.listeners
    /\ setting.proxy =>
         /\ ProxyBackend(setting) \in OperatorDefaultsListeners(setting)
         /\ \A l \in OperatorDefaultsListeners(setting) : l.addr # "any" /\ l.port # ProxyListenPort(setting)
=============================================================================
