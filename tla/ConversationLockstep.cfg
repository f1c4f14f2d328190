SPECIFICATION ConversationSpec
CONSTANTS
  Relays = {r1}
  Speaks = {}
INVARIANT Lockstep
