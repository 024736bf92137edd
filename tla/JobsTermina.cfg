\* The bound uses up the job ids: the system may stop.
CHECK_DEADLOCK FALSE
CONSTANTS
    Tenants = {1, 2}
    Referencias = {metas, prazos}
    Diretas = {}
    Recusadas = {prazos}
    Jobs = {1, 2, 3, 4}
    Agendadores = {s1, s2}
    Trabalhadores = {w1}
    MaxEntregas = 2
    BrokerFalha = TRUE
    AgendadorCai = FALSE
    Nada = Nada
SPECIFICATION SpecSemQuedas
PROPERTIES JobsRodam
