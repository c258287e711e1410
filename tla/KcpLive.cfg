SPECIFICATION LiveSpec
CONSTANTS
 IKCP_WND_RCV = 2
 IKCP_WND_SND = 4
 IKCP_MTU_DEF = 60
 IKCP_OVERHEAD = 24
 IKCP_THRESH_INIT = 2
 IKCP_THRESH_MIN = 2
 IKCP_FASTACK_LIMIT = 1
 Sizes <- SmallSizes
 MTU = 50
 SndWnd = 2
 RcvWnd = 2
 BufSize = 100
 FastResends = {0}
 MaxNet = 1
PROPERTY MessagesArrive
