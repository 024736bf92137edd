\* The bounds use up the job ids and a message may be lost: the system may stop.
CHECK_DEADLOCK FALSE
CONSTANTS
    Campanhas = {c1}
    Jobs = {1, 2}
    Trabalhadores = {w1, w2}
    Requisicoes = {r1}
    MaxEntregas = 2
    BrokerFalha = TRUE
    Nada = Nada
SPECIFICATION SpecJusta
PROPERTY EncerramentoSeResolve
