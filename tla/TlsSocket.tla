------------------------------ MODULE TlsSocket ------------------------------
(***************************************************************************)
(* QZephyrTlsSocket: a QTcpSocket on a Zephyr TLS socket.  One thread      *)
(* calls it and receives its signals; what runs beside it is the network.  *)
(* connectToHost opens a descriptor, configures TLS on it, hands it to     *)
(* QTcpSocket (which closes the one it had) and starts the connection; the *)
(* handshake is part of the connection, in the stack, with the             *)
(* configuration of its descriptor.  QTcpSocket and Zephyr are external.   *)
(***************************************************************************)
EXTENDS Naturals

CONSTANTS
  Fd,            (* descriptors the system has                             *)
  Host,          (* host names                                             *)
  Tags,          (* security tag lists; NoTags is the empty one            *)
  NoTags,
  NoName,        (* the empty host name                                    *)
  NoFd,
  MaxCalls       (* bound: calls of connectToHost                          *)

ASSUME NameAssumption == NoName \notin Host
ASSUME FdAssumption   == NoFd \notin Fd
ASSUME CallAssumption == MaxCalls \in Nat

VARIABLES
  m_secTags, m_peerVerify, m_tlsHostname,
  open,          (* the open descriptors                                   *)
  tls,           (* descriptor -> its TLS options                          *)
  engine,        (* the descriptor QTcpSocket owns, or NoFd                *)
  state,         (* QAbstractSocket's state                                *)
  handlers,      (* single-shot handlers waiting for connected()           *)
  encrypted,     (* encrypted() emitted                                    *)
  started, connected, errors,  (* connects begun and made; errorOccurred   *)
  asked,         (* for the properties: the settings when the connect of   *)
                 (* engine was asked for                                   *)
  named          (* for the properties: the host names given so far       *)

settings == <<m_secTags, m_peerVerify, m_tlsHostname>>
countVars == <<handlers, encrypted, started, connected, errors>>
vars == <<settings, open, tls, engine, state, countVars, asked, named>>

Verify == {"none", "required"}       (* TLS_PEER_VERIFY_* *)
Names  == Host \cup {NoName}
Options == [tags : Tags \cup {NoTags}, verify : Verify \cup {"default"}, host : Names]
Asked   == [tags : Tags \cup {NoTags}, verify : Verify]

Fresh == [tags |-> NoTags, verify |-> "default", host |-> NoName]

TypeOK ==
  /\ m_secTags \in Tags \cup {NoTags} /\ m_peerVerify \in Verify /\ m_tlsHostname \in Names
  /\ open \subseteq Fd /\ engine \in Fd \cup {NoFd}
  /\ tls \in [Fd -> Options]
  /\ state \in {"unconnected", "connecting", "connected"}
  /\ {handlers, encrypted, started, connected} \subseteq 0..MaxCalls
  /\ connected <= started /\ started <= MaxCalls
  /\ errors \in 0..(2 * MaxCalls)
  /\ asked \in Asked /\ named \subseteq Host

Init ==
  /\ m_secTags = NoTags /\ m_peerVerify = "required" /\ m_tlsHostname = NoName
  /\ open = {} /\ engine = NoFd
  /\ tls = [fd \in Fd |-> Fresh]
  /\ state = "unconnected"
  /\ handlers = 0 /\ encrypted = 0
  /\ started = 0 /\ connected = 0 /\ errors = 0
  /\ asked = [tags |-> m_secTags, verify |-> m_peerVerify] /\ named = {}

(* setSecTags, setPeerVerify, setTlsHostname: for the connects that follow *)
Set ==
  /\ started < MaxCalls
  /\ \/ m_secTags' \in Tags \cup {NoTags} /\ UNCHANGED <<m_peerVerify, m_tlsHostname>>
     \/ m_peerVerify' \in Verify /\ UNCHANGED <<m_secTags, m_tlsHostname>>
     \/ m_tlsHostname' \in Names /\ UNCHANGED <<m_secTags, m_peerVerify>>
  /\ named' = named \cup ({m_tlsHostname'} \cap Host)
  /\ UNCHANGED <<open, tls, engine, state, countVars, asked>>

(* The name to verify: the one set, or the first host connected to. *)
NameFor(host) == IF m_tlsHostname = NoName THEN host ELSE m_tlsHostname

(* The options configureTlsOnSocket sets; the others stay as they are on a *)
(* new descriptor.                                                         *)
OptionsSet(host) ==
  {"verify"} \cup (IF m_secTags = NoTags THEN {} ELSE {"tags"})
             \cup (IF NameFor(host) = NoName THEN {} ELSE {"host"})

(* Only the last result counts: an earlier refusal is passed over. *)
LastAccepted(host, refused) == "host" \notin refused

(* It fails with the first option refused.                                 *)
Accepted(host, refused) == OptionsSet(host) \cap refused = {}

(* The options of a new descriptor afterwards. *)
Configured(host, refused) ==
  LET isSet(o) == o \in OptionsSet(host) \ refused
  IN [tags   |-> IF isSet("tags") THEN m_secTags ELSE Fresh.tags,
      verify |-> IF isSet("verify") THEN m_peerVerify ELSE Fresh.verify,
      host   |-> IF isSet("host") THEN NameFor(host) ELSE Fresh.host]

Failed ==
  /\ errors' = errors + 1
  /\ UNCHANGED <<engine, state, handlers, encrypted, started, connected, asked>>

(* zsock_socket fails, for want of descriptors or otherwise. *)
NoSocket == Failed /\ UNCHANGED <<open, tls>>

(* The descriptor left open. *)
LeftOpen(fd) == open' = open \cup {fd}

(* zsock_close of the descriptor just opened. *)
Close(fd) == open' = open \ {fd}

(* configureTlsOnSocket returns false; the descriptor is closed with what  *)
(* it has been given so far.                                               *)
ConfigFails(fd) == Failed /\ Close(fd) /\ UNCHANGED tls

(* connected() is emitted: every handler that waits for it emits           *)
(* encrypted(), and is gone.                                               *)
EmitConnected(waiting) ==
  /\ state' = "connected"
  /\ connected' = connected + 1
  /\ encrypted' = encrypted + waiting

(* A handler that stays connected to the signal. *)
HandlersKept(more) == handlers' = handlers + more

HandlersGone(more) == handlers' = more

(* setSocketDescriptor, QTcpSocket::connectToHost, and the handler added   *)
(* after it.  The connection is usually made later, but may also be made,  *)
(* or fail, within the call.                                               *)
Start(fd, host, refused) ==
  /\ open' = (open \ {engine}) \cup {fd}
  /\ engine' = fd
  /\ tls' = [tls EXCEPT ![fd] = Configured(host, refused)]
  /\ asked' = [tags |-> m_secTags, verify |-> m_peerVerify]
  /\ started' = started + 1
  /\ \/ /\ state' = "connecting"
        /\ handlers' = handlers + 1
        /\ UNCHANGED <<encrypted, connected, errors>>
     \/ /\ EmitConnected(handlers)
        /\ HandlersGone(1)
        /\ UNCHANGED errors
     \/ /\ state' = "unconnected"
        /\ handlers' = handlers + 1
        /\ errors' = errors + 1
        /\ UNCHANGED <<encrypted, connected>>

(* Not from the slots of its own signals.  The system may refuse any of    *)
(* the options.                                                            *)
ConnectToHost(host) ==
  /\ started + errors < MaxCalls
  /\ m_tlsHostname' = NameFor(host)
  /\ named' = named \cup {host}
  /\ UNCHANGED <<m_secTags, m_peerVerify>>
  /\ \/ NoSocket
     \/ \E fd \in Fd \ open, refused \in SUBSET {"tags", "verify", "host"} :
          \/ ~Accepted(host, refused) /\ ConfigFails(fd)
          \/ Accepted(host, refused)  /\ Start(fd, host, refused)

Established ==
  /\ state = "connecting"
  /\ EmitConnected(handlers)
  /\ HandlersGone(0)
  /\ UNCHANGED <<settings, open, tls, engine, started, errors, asked, named>>

(* The handshake or the connection fails; the descriptor is QTcpSocket's   *)
(* to close, now or with the next one.                                     *)
ConnectFails ==
  /\ state = "connecting"
  /\ state' = "unconnected"
  /\ errors' = errors + 1
  /\ UNCHANGED <<settings, open, tls, engine, handlers, encrypted, started, connected,
                 asked, named>>

Disconnect ==
  /\ engine # NoFd
  /\ state' = "unconnected"
  /\ open' = open \ {engine}
  /\ engine' = NoFd
  /\ UNCHANGED <<settings, tls, countVars, asked, named>>

Next ==
  \/ Set
  \/ \E host \in Host : ConnectToHost(host)
  \/ Established \/ ConnectFails
  \/ Disconnect

Spec == Init /\ [][Next]_vars

-----------------------------------------------------------------------------
(* No path through connectToHost, first or repeated, keeps a descriptor    *)
(* nobody owns: a device that reconnects for ever does not run out.        *)
NoDescriptorLeaks == open = {engine} \ {NoFd}

(* A connection is begun only on a descriptor that took every option, so   *)
(* its handshake never falls back to what the stack does by default, after *)
(* an option was refused, a connect failed or a setting was changed while  *)
(* an earlier connection was being made.  Tags and verification are those  *)
(* set when the connect was asked for; the name is a name the application  *)
(* has given, so it is the host connected to if it has given no other.     *)
(* (If it has given two, it may be the earlier one.)                       *)
NoHandshakeByDefault ==
  state # "unconnected" =>
    /\ tls[engine].tags = asked.tags
    /\ tls[engine].verify = asked.verify
    /\ tls[engine].host \in named

(* Every connect begun has one encrypted(), emitted or waiting for the     *)
(* next connected(): none is lost and none is emitted twice.  (A connect   *)
(* that failed leaves its own to a later one, which then emits both.)      *)
EncryptedPerConnect == encrypted + handlers = started

=============================================================================
