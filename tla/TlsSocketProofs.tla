--------------------------- MODULE TlsSocketProofs ---------------------------
(***************************************************************************)
(* Proofs about TlsSocket, for any descriptors, hosts, tags and number of  *)
(* calls.                                                                  *)
(***************************************************************************)
EXTENDS TlsSocket, TLAPS

(* The types the first arguments need; the counts are typed further down.  *)
Typed ==
  /\ m_secTags \in Tags \cup {NoTags} /\ m_peerVerify \in Verify /\ m_tlsHostname \in Names
  /\ engine \in Fd \cup {NoFd}
  /\ tls \in [Fd -> Options]
  /\ asked \in Asked /\ named \subseteq Host
  /\ handlers \in Nat /\ encrypted \in Nat /\ started \in Nat

(* A connection under way or made has a descriptor. *)
Owned == state # "unconnected" => engine \in Fd

(* The name remembered is one the application has given. *)
NameGiven == m_tlsHostname \in named \cup {NoName}

IndInv ==
  /\ Typed
  /\ NameGiven
  /\ Owned
  /\ NoDescriptorLeaks
  /\ NoHandshakeByDefault
  /\ EncryptedPerConnect

LEMMA InitInv == Init => IndInv
BY FdAssumption
   DEF Init, IndInv, Typed, NameGiven, Owned, NoDescriptorLeaks, NoHandshakeByDefault,
       EncryptedPerConnect, Verify, Names, Options, Asked, Fresh

(* The name to verify is the host, or one given before. *)
LEMMA NameOfConnect ==
  ASSUME Typed, NameGiven, NEW host \in Host
  PROVE  /\ NameFor(host) \in Host
         /\ NameFor(host) = host \/ NameFor(host) \in named
BY NameAssumption DEF Typed, NameGiven, NameFor, Names

(* A descriptor that refused nothing it was given has every setting: an    *)
(* option that is not set is one whose setting is what a new descriptor    *)
(* has.                                                                    *)
LEMMA AcceptedAsSet ==
  ASSUME Typed, NameGiven, NEW host \in Host, NEW refused, Accepted(host, refused)
  PROVE  Configured(host, refused)
           = [tags |-> m_secTags, verify |-> m_peerVerify, host |-> NameFor(host)]
<1>1. NameFor(host) # NoName
  BY NameOfConnect, NameAssumption
<1>2. /\ "verify" \in OptionsSet(host) \ refused
      /\ "host" \in OptionsSet(host) \ refused
      /\ m_secTags # NoTags => "tags" \in OptionsSet(host) \ refused
  BY <1>1 DEF Accepted, OptionsSet
<1> QED
  BY <1>2 DEF Configured, OptionsSet, Fresh

-----------------------------------------------------------------------------
LEMMA SetStep ==
  ASSUME IndInv, Set
  PROVE  IndInv'
<1> USE DEF IndInv, Set, countVars
<1>1. Typed' /\ NameGiven'
  BY DEF Typed, NameGiven, Names
<1>2. Owned' /\ NoDescriptorLeaks' /\ EncryptedPerConnect'
  BY DEF Owned, NoDescriptorLeaks, EncryptedPerConnect
<1>3. NoHandshakeByDefault'
  BY DEF NoHandshakeByDefault
<1> QED
  BY <1>1, <1>2, <1>3

(* A call that gives up: nothing but the remembered name is left of it. *)
LEMMA FailedStep ==
  ASSUME IndInv, NEW host \in Host,
         m_tlsHostname' = NameFor(host), named' = named \cup {host},
         UNCHANGED <<m_secTags, m_peerVerify, tls>>, Failed, open' = open
  PROVE  IndInv'
<1> USE DEF IndInv, Failed
<1>1. Typed' /\ NameGiven'
  BY NameOfConnect DEF Typed, NameGiven, Names
<1>2. Owned' /\ NoDescriptorLeaks' /\ EncryptedPerConnect'
  BY DEF Owned, NoDescriptorLeaks, EncryptedPerConnect
<1>3. NoHandshakeByDefault'
  BY DEF NoHandshakeByDefault
<1> QED
  BY <1>1, <1>2, <1>3

(* The new descriptor takes the place of the one QTcpSocket had. *)
LEMMA StartStep ==
  ASSUME IndInv, NEW host \in Host, NEW fd \in Fd \ open, NEW refused,
         m_tlsHostname' = NameFor(host), named' = named \cup {host},
         UNCHANGED <<m_secTags, m_peerVerify>>,
         Accepted(host, refused), Start(fd, host, refused)
  PROVE  IndInv'
<1> USE DEF IndInv
<1>0. /\ NameFor(host) \in Host
      /\ NameFor(host) = host \/ NameFor(host) \in named
  BY NameOfConnect
<1> DEFINE all == [tags |-> m_secTags, verify |-> m_peerVerify, host |-> NameFor(host)]
<1>1. all \in Options
  BY <1>0 DEF Typed, Options, Names
<1>2. tls' \in [Fd -> Options] /\ tls'[fd] = all
  <2>1. tls' = [tls EXCEPT ![fd] = all]
    BY AcceptedAsSet DEF Start
  <2> QED
    BY <1>1, <2>1 DEF Typed
<1>3. handlers' \in Nat /\ encrypted' \in Nat /\ started' \in Nat /\ EncryptedPerConnect'
  BY DEF Start, EmitConnected, HandlersGone, Typed, EncryptedPerConnect
<1>4. Typed' /\ NameGiven' /\ Owned'
  <2>1. asked' \in Asked
    BY DEF Start, Typed, Asked
  <2> QED
    BY <1>0, <1>2, <1>3, <2>1 DEF Start, Typed, NameGiven, Owned, Names
<1>5. NoDescriptorLeaks'
  BY FdAssumption DEF Start, NoDescriptorLeaks
<1>6. NoHandshakeByDefault'
  <2>1. /\ engine' = fd
        /\ asked' = [tags |-> m_secTags, verify |-> m_peerVerify]
    BY DEF Start
  <2>2. tls'[engine'].host \in named'
    BY <1>0, <1>2, <2>1
  <2> QED
    BY <1>2, <2>1, <2>2 DEF NoHandshakeByDefault
<1> QED
  BY <1>3, <1>4, <1>5, <1>6

LEMMA ConnectToHostStep ==
  ASSUME IndInv, NEW host \in Host, ConnectToHost(host)
  PROVE  IndInv'
<1>0. /\ m_tlsHostname' = NameFor(host) /\ named' = named \cup {host}
      /\ UNCHANGED <<m_secTags, m_peerVerify>>
  BY DEF ConnectToHost
<1>1. CASE NoSocket
  BY <1>0, <1>1, FailedStep DEF NoSocket
<1>2. ASSUME NEW fd \in Fd \ open, ConfigFails(fd) PROVE IndInv'
  <2>1. open' = open
    BY <1>2 DEF ConfigFails, Close
  <2> QED
    BY <1>0, <1>2, <2>1, FailedStep DEF ConfigFails
<1>3. ASSUME NEW fd \in Fd \ open, NEW refused, Accepted(host, refused),
             Start(fd, host, refused)
      PROVE  IndInv'
  BY <1>0, <1>3, StartStep
<1> QED
  BY <1>1, <1>2, <1>3 DEF ConnectToHost

LEMMA EstablishedStep ==
  ASSUME IndInv, Established
  PROVE  IndInv'
<1> USE DEF IndInv, Established, EmitConnected, HandlersGone, settings
<1>1. Typed' /\ NameGiven' /\ EncryptedPerConnect'
  BY DEF Typed, NameGiven, EncryptedPerConnect
<1>2. Owned' /\ NoDescriptorLeaks' /\ NoHandshakeByDefault'
  BY DEF Owned, NoDescriptorLeaks, NoHandshakeByDefault
<1> QED
  BY <1>1, <1>2

LEMMA ConnectFailsStep ==
  ASSUME IndInv, ConnectFails
  PROVE  IndInv'
BY DEF IndInv, ConnectFails, settings, Typed, NameGiven, Owned, NoDescriptorLeaks,
       NoHandshakeByDefault, EncryptedPerConnect

LEMMA DisconnectStep ==
  ASSUME IndInv, Disconnect
  PROVE  IndInv'
BY DEF IndInv, Disconnect, settings, countVars, Typed, NameGiven, Owned, NoDescriptorLeaks,
       NoHandshakeByDefault, EncryptedPerConnect

LEMMA StutterStep ==
  ASSUME IndInv, UNCHANGED vars
  PROVE  IndInv'
BY DEF IndInv, vars, settings, countVars, Typed, NameGiven, Owned, NoDescriptorLeaks,
       NoHandshakeByDefault, EncryptedPerConnect

-----------------------------------------------------------------------------
(* The inductive invariant. *)
THEOREM Invariant == Spec => []IndInv
<1>1. Init => IndInv
  BY InitInv
<1>2. IndInv /\ [Next]_vars => IndInv'
  <2> SUFFICES ASSUME IndInv, [Next]_vars PROVE IndInv'
    OBVIOUS
  <2> QED
    BY SetStep, ConnectToHostStep, EstablishedStep, ConnectFailsStep, DisconnectStep,
       StutterStep DEF Next
<1> QED
  BY <1>1, <1>2, PTL DEF Spec

(* However often connectToHost is called, and wherever it gives up, the    *)
(* only descriptor open is the one QTcpSocket owns.                        *)
THEOREM DescriptorsOwned == Spec => []NoDescriptorLeaks
<1>1. IndInv => NoDescriptorLeaks
  BY DEF IndInv
<1> QED
  BY <1>1, Invariant, PTL

(* A connection begun has the tags and the verification the settings had   *)
(* when its connect was asked for, and verifies a name that was given,     *)
(* whichever options the system refuses in this connect or any before.     *)
THEOREM NoDefaultHandshake == Spec => []NoHandshakeByDefault
<1>1. IndInv => NoHandshakeByDefault
  BY DEF IndInv
<1> QED
  BY <1>1, Invariant, PTL

(* encrypted() and the handlers that wait to emit it account for every     *)
(* connect begun.                                                          *)
THEOREM EncryptedAccounted == Spec => []EncryptedPerConnect
<1>1. IndInv => EncryptedPerConnect
  BY DEF IndInv
<1> QED
  BY <1>1, Invariant, PTL

-----------------------------------------------------------------------------
(* Every connection made was begun, and one that is being made is begun    *)
(* and not made yet.  A call of connectToHost reports at most one error    *)
(* and begins at most one connect, which reports at most one more.         *)
Counted ==
  /\ state \in {"unconnected", "connecting", "connected"}
  /\ connected \in Nat /\ errors \in Nat
  /\ connected <= started
  /\ state = "connecting" => connected < started
  /\ started <= MaxCalls
  /\ started + errors <= MaxCalls + (IF state = "connecting" THEN 0 ELSE 1)
  /\ started + errors > 0 => MaxCalls > 0

LEMMA CountedInit == Init => Counted
BY CallAssumption DEF Init, Counted

LEMMA CountedStart ==
  ASSUME IndInv, Counted, started + errors < MaxCalls,
         NEW host, NEW fd, NEW refused, Start(fd, host, refused)
  PROVE  Counted'
<1>0. started \in Nat /\ connected \in Nat /\ errors \in Nat /\ MaxCalls \in Nat
  BY CallAssumption DEF IndInv, Typed, Counted
<1>1. started' = started + 1
  BY DEF Start
<1>2. CASE state' = "connecting" /\ UNCHANGED <<encrypted, connected, errors>>
  BY <1>0, <1>1, <1>2 DEF Counted
<1>3. CASE EmitConnected(handlers) /\ UNCHANGED errors
  BY <1>0, <1>1, <1>3 DEF Counted, EmitConnected
<1>4. CASE state' = "unconnected" /\ errors' = errors + 1 /\ UNCHANGED <<encrypted, connected>>
  BY <1>0, <1>1, <1>4 DEF Counted
<1> QED
  BY <1>2, <1>3, <1>4 DEF Start

LEMMA CountedNext ==
  ASSUME IndInv, Counted, [Next]_vars
  PROVE  Counted'
<1>0. started \in Nat /\ MaxCalls \in Nat
  BY CallAssumption DEF IndInv, Typed
<1>1. CASE Set \/ UNCHANGED vars
  BY <1>1 DEF Set, vars, settings, countVars, Counted
<1>2. ASSUME NEW host \in Host, ConnectToHost(host) PROVE Counted'
  <2>1. started + errors < MaxCalls
    BY <1>2 DEF ConnectToHost
  <2>2. CASE Failed
    BY <1>0, <2>1, <2>2 DEF Failed, Counted
  <2>3. ASSUME NEW fd \in Fd \ open, NEW refused, Start(fd, host, refused) PROVE Counted'
    BY <2>1, <2>3, CountedStart
  <2> QED
    BY <1>2, <2>2, <2>3 DEF ConnectToHost, NoSocket, ConfigFails
<1>3. CASE Established
  BY <1>0, <1>3 DEF Established, EmitConnected, Counted
<1>4. CASE ConnectFails
  BY <1>0, <1>4 DEF ConnectFails, Counted
<1>5. CASE Disconnect
  BY <1>0, <1>5 DEF Disconnect, countVars, Counted
<1> QED
  BY <1>1, <1>2, <1>3, <1>4, <1>5 DEF Next

LEMMA TypeFromInv ==
  ASSUME IndInv, Counted
  PROVE  TypeOK
<1>1. open \subseteq Fd
  BY DEF IndInv, Typed, NoDescriptorLeaks
<1>2. /\ {handlers, encrypted, started, connected} \subseteq 0..MaxCalls
      /\ errors \in 0..(2 * MaxCalls)
  BY CallAssumption DEF IndInv, Typed, EncryptedPerConnect, Counted
<1> QED
  BY <1>1, <1>2 DEF TypeOK, IndInv, Typed, Counted

(* Every variable keeps its type; no count passes the calls made, and a    *)
(* connected() is emitted for a connect that was begun, at most once.      *)
THEOREM TypeCorrect == Spec => []TypeOK
<1>1. Init => Counted
  BY CountedInit
<1>2. IndInv /\ Counted /\ [Next]_vars => Counted'
  BY CountedNext
<1>3. IndInv /\ Counted => TypeOK
  BY TypeFromInv
<1> QED
  BY <1>1, <1>2, <1>3, Invariant, PTL DEF Spec

=============================================================================
