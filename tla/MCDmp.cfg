CONSTANTS
  m1 = m1
  m2 = m2
  big = big
  ZeroHash = ZeroHash
  Paras <- MCParas
  Msgs <- MCMsgs
  MsgLen <- MCMsgLen
  MaxDownwardMessageSize = 4
  MaxBlock = 3
  MaxChain = 3
SPECIFICATION Spec
INVARIANTS
  TypeOKDmp
  MqcHeadCommitsQueue
  OutgoingSortedUnique
PROPERTIES
  DmpRefinesAbstract
