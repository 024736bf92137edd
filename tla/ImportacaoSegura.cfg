\* The bound uses up the job ids, and a cancelled import is final: the system
\* may stop.
CHECK_DEADLOCK FALSE
CONSTANTS
    Linhas = {1, 2}
    p1 = p1
    Pessoas = {p1}
    DaPessoa <- PessoaDasDuas
    Chaves <- ChavesDeUma
    m1 = m1
    m2 = m2
    Mapas = {m1, m2}
    Erradas <- ErradasPorMapa
    SemNome = {}
    Jobs = {1, 2}
    Trabalhadores = {w1, w2}
    MaxEntregas = 2
    BrokerFalha = TRUE
    Nada = Nada
SPECIFICATION SpecJusta
INVARIANTS StagingConfere CargaConfere
PROPERTIES ImportacaoTermina
